---- MODULE Spec2Model ----
(***************************************************************************)
(* A model of the Monkey bytecode pipeline of st3fan/monkey: the symbol    *)
(* table and compiler of monkey/compiler.py, the instruction encoder of    *)
(* monkey/code.py, the stack machine of monkey/vm.py and, as the reference *)
(* it is compared with, the tree-walking evaluator of monkey/evaluator.py. *)
(*                                                                         *)
(* Python lists are sequences; a 0-based index i of the code is element    *)
(* i + 1 here.  The operations of the compiler and of the machine are      *)
(* operators that take the object's state as a record and return the new   *)
(* state; a raised exception is the field "error" set to its message, and  *)
(* every later operation of the same handler leaves such a state alone.    *)
(***************************************************************************)
EXTENDS Integers, Sequences, FiniteSets, TLC

VARIABLES
    pc,             \* where the driver is: "start", "compiled", "running", "done", "error", "compile_error", "symtab", "prompt", "make", "made", "raised"
    program,        \* the AST handed to Compiler.compile
    bytecode,       \* Compiler.bytecode(): [instructions, constants]
    compile_log,    \* history: per compiled function literal, what it compiled to and what the enclosing scope emitted
    constants,      \* VirtualMachine.constants
    stack,          \* VirtualMachine.stack, the written prefix (every slot above is NULL)
    sp,             \* VirtualMachine.sp
    frames,         \* VirtualMachine.frames
    globals,        \* VirtualMachine.globals, the written prefix (every slot above is NULL)
    last,           \* VirtualMachine.last
    error,          \* the message of the exception that ended run(), "" when none
    call_log,       \* history: for every frame above the main one, sp and num_args at its CALL
    tables,         \* a chain of SymbolTable objects: tables[1] is the global one, tables[k].outer is tables[k-1]
    op,             \* history: the last symbol table operation and what it returned
    captured,       \* history: per table, the outer symbols first resolved through it, in order
    compiler_state, \* the CompilerState of repl.start: [symbol_table, constants]
    virtual_machine_state,  \* the VirtualMachineState of repl.start: [globals]
    lines           \* history: the lines repl.start has read, as indices of ReplLines

vars == <<pc, program, bytecode, compile_log, constants, stack, sp, frames, globals,
          last, error, call_log, tables, op, captured,
          compiler_state, virtual_machine_state, lines>>

vm_vars == <<constants, stack, sp, frames, globals, last, error, call_log>>
sym_vars == <<tables, op, captured>>
repl_vars == <<compiler_state, virtual_machine_state, lines>>

(***************************************************************************)
(* Bounds of the model.                                                    *)
(***************************************************************************)
MaxInt == 1          \* integer literals of the generated expressions are 0..MaxInt
MaxCalls == 4        \* calls on the symbol table chain, of any of its four operations
MaxDefineResolveCalls == 5      \* calls on the symbol table chain, define and resolve only

(***************************************************************************)
(* Sequence helpers.                                                       *)
(***************************************************************************)
Last(s) == s[Len(s)]
Front(s) == SubSeq(s, 1, Len(s) - 1)
SetAt(s, i, v) == [s EXCEPT ![i] = v]

RECURSIVE Concat(_)
Concat(ss) == IF ss = <<>> THEN <<>> ELSE Head(ss) \o Concat(Tail(ss))

\* A Python dict as a function: d[k] = v
DictSet(d, k, v) == [x \in DOMAIN d \cup {k} |-> IF x = k THEN v ELSE d[x]]

(***************************************************************************)
(* monkey/object.py: the values.                                           *)
(***************************************************************************)
Integer(n) == [type |-> "INTEGER", value |-> n]
Boolean(b) == [type |-> "BOOLEAN", value |-> b]
String(s) == [type |-> "STRING", value |-> s]
Array(elements) == [type |-> "ARRAY", elements |-> elements]
Hash(pairs) == [type |-> "HASH", pairs |-> pairs]
CompiledFunction(instructions, num_locals, num_parameters) ==
    [type |-> "COMPILED_FUNCTION", instructions |-> instructions,
     num_locals |-> num_locals, num_parameters |-> num_parameters]
Closure(fn, free) == [type |-> "CLOSURE", fn |-> fn, free |-> free]
Builtin(name) == [type |-> "BUILTIN", name |-> name]
EvaluationError(message) == [type |-> "EVALUATION_ERROR", message |-> message]
ReturnValue(v) == [type |-> "RETURN_VALUE", value |-> v]
Function(parameters, body, environment) ==
    [type |-> "FUNCTION", parameters |-> parameters, body |-> body, environment |-> environment]
NULL == [type |-> "NULL"]
TRUE_ == Boolean(TRUE)
FALSE_ == Boolean(FALSE)

\* self.last before the first pop: None
NoObject == [type |-> "None"]

\* dataclass __eq__: the same class and equal fields; a dict field compares without order
RECURSIVE ObjEq(_, _)
ObjEq(a, b) ==
    IF a.type # b.type THEN FALSE
    ELSE CASE a.type = "ARRAY" ->
                /\ Len(a.elements) = Len(b.elements)
                /\ \A i \in 1..Len(a.elements) : ObjEq(a.elements[i], b.elements[i])
           [] a.type = "HASH" ->
                /\ Len(a.pairs) = Len(b.pairs)
                /\ \A i \in 1..Len(a.pairs) : \E j \in 1..Len(b.pairs) :
                       ObjEq(a.pairs[i][1], b.pairs[j][1]) /\ ObjEq(a.pairs[i][2], b.pairs[j][2])
           [] a.type = "CLOSURE" ->
                /\ a.fn = b.fn
                /\ Len(a.free) = Len(b.free)
                /\ \A i \in 1..Len(a.free) : ObjEq(a.free[i], b.free[i])
           [] OTHER -> a = b

\* evaluator.py
make_boolean(value) == IF value THEN TRUE_ ELSE FALSE_

\* is_truthy as Python's bool() would have it: 0 and the empty string count as false
is_truthy_of_python(object) ==
    /\ ~ObjEq(object, NULL)
    /\ ~ObjEq(object, FALSE_)
    /\ ~ObjEq(object, Integer(0))
    /\ ~ObjEq(object, String(<<>>))

is_truthy(object) == ~ObjEq(object, NULL) /\ ~ObjEq(object, FALSE_)

\* Python's // on integers: the floor of the quotient
FloorDiv(a, b) == IF b > 0 THEN a \div b ELSE (0 - a) \div (0 - b)

\* Python's < on str: lexicographic on the character codes
RECURSIVE StrLess(_, _)
StrLess(a, b) ==
    IF b = <<>> THEN FALSE
    ELSE IF a = <<>> THEN TRUE
    ELSE IF Head(a) # Head(b) THEN Head(a) < Head(b)
    ELSE StrLess(Tail(a), Tail(b))

\* a frozen dataclass with a list or dict field has no hash
hashable(object) == object.type \notin {"ARRAY", "HASH", "CLOSURE"}

\* A Python dict with object keys, in insertion order: pairs[key] = value and pairs.get(key, default)
RECURSIVE pairs_index(_, _)
pairs_index(pairs, key) ==
    IF pairs = <<>> THEN 0
    ELSE IF ObjEq(Last(pairs)[1], key) THEN Len(pairs)
    ELSE pairs_index(Front(pairs), key)

pairs_set(pairs, key, value) ==
    LET i == pairs_index(pairs, key) IN
    IF i = 0 THEN Append(pairs, <<key, value>>) ELSE [pairs EXCEPT ![i] = <<pairs[i][1], value>>]

pairs_get(pairs, key, default) ==
    LET i == pairs_index(pairs, key) IN IF i = 0 THEN default ELSE pairs[i][2]

(***************************************************************************)
(* monkey/code.py: opcodes, operand widths, make.                          *)
(***************************************************************************)
\* Opcode; CONSTANT is a reserved word of TLA+, so that member is CONSTANT_
CodeOpcode ==
    [CONSTANT_ |-> 0, ADD |-> 1, SUBTRACT |-> 2, MULTIPLY |-> 3, DIVIDE |-> 4, TRUE |-> 5,
     FALSE |-> 6, GREATER_THAN |-> 7, LESS_THAN |-> 8, EQUAL |-> 9, NOT_EQUAL |-> 10,
     MINUS |-> 11, BANG |-> 12, JUMP_NOT_TRUTHY |-> 13, JUMP |-> 14, POP |-> 15, NULL |-> 16,
     GET_GLOBAL |-> 17, SET_GLOBAL |-> 18, ARRAY |-> 19, HASH |-> 20, INDEX |-> 21,
     CALL |-> 22, RETURN_VALUE |-> 23, RETURN |-> 24, GET_LOCAL |-> 25, SET_LOCAL |-> 26,
     GET_BUILTIN |-> 27, CLOSURE |-> 28, GET_FREE |-> 29]

\* The opcode compiler.py and vm.py use and code.py does not list: the next free value.
CurrentClosureOpcode == [CURRENT_CLOSURE |-> 30]

Opcode == CodeOpcode @@ CurrentClosureOpcode

OpcodeValues == {Opcode[n] : n \in DOMAIN Opcode}

\* DEFINITIONS[opcode].operand_widths
operand_widths(opcode) ==
    IF opcode \in {Opcode.CONSTANT_, Opcode.JUMP_NOT_TRUTHY, Opcode.JUMP, Opcode.GET_GLOBAL,
                   Opcode.SET_GLOBAL, Opcode.ARRAY, Opcode.HASH} THEN <<2>>
    ELSE IF opcode \in {Opcode.CALL, Opcode.GET_LOCAL, Opcode.SET_LOCAL, Opcode.GET_BUILTIN,
                        Opcode.GET_FREE} THEN <<1>>
    ELSE IF opcode = Opcode.CLOSURE THEN <<2, 1>>
    ELSE <<>>

\* struct.pack("<B", o) and struct.pack("<H", o): the low byte first
pack_little_endian(width, o) ==
    IF width = 1 THEN <<o>> ELSE <<o % 256, o \div 256>>

\* struct.pack(">B", o) and struct.pack(">H", o): big-endian, unsigned
pack(width, o) ==
    IF width = 1 THEN <<o>> ELSE <<o \div 256, o % 256>>

pack_ok(width, o) ==
    IF width = 1 THEN o \in 0..255 ELSE o \in 0..65535

\* make(opcode, operands): [error, bytes]
make(opcode, operands) ==
    IF opcode \notin OpcodeValues
    THEN [error |-> "Cannot find definition for opcode", bytes |-> <<>>]
    ELSE LET widths == operand_widths(opcode) IN
         IF Len(widths) # Len(operands)
         THEN [error |-> "Expected operands", bytes |-> <<>>]
         ELSE IF \E i \in 1..Len(operands) : ~pack_ok(widths[i], operands[i])
         THEN [error |-> "struct.error", bytes |-> <<>>]
         ELSE [error |-> "",
               bytes |-> <<opcode>> \o Concat([i \in 1..Len(operands) |-> pack(widths[i], operands[i])])]

\* struct.unpack_from(">H", b, at) and (">B", b, at); at is 0-based
unpack_ushort(b, at) == b[at + 1] * 256 + b[at + 2]
unpack_ubyte(b, at) == b[at + 1]

(***************************************************************************)
(* monkey/compiler.py: Symbol and SymbolTable.  A table is the record      *)
(* [store, free_symbols, next_index]; its outer is the table before it in  *)
(* the chain ts, and the operations take the chain and the table's place k *)
(* in it because resolve writes to every table it passes through.          *)
(***************************************************************************)
Symbol(name, scope, index) == [name |-> name, scope |-> scope, index |-> index]

\* resolve's None
NoSymbol == [name |-> "", scope |-> "NONE", index |-> 0 - 1]

SymbolTable == [store |-> <<>>, free_symbols |-> <<>>, next_index |-> 0]

\* define with the lines it has commented out: a name already in the store keeps its symbol
define_keeps_the_old_entry(ts, k, name) ==
    IF name \in DOMAIN ts[k].store
    THEN [tables |-> ts, symbol |-> ts[k].store[name], error |-> ""]
    ELSE LET symbol == Symbol(name, IF k = 1 THEN "GLOBAL" ELSE "LOCAL", ts[k].next_index) IN
         [tables |-> [ts EXCEPT ![k].next_index = @ + 1, ![k].store = DictSet(@, name, symbol)],
          symbol |-> symbol, error |-> ""]

define(ts, k, name) ==
    LET symbol == Symbol(name, IF k = 1 THEN "GLOBAL" ELSE "LOCAL", ts[k].next_index) IN
    [tables |-> [ts EXCEPT ![k].next_index = @ + 1, ![k].store = DictSet(@, name, symbol)],
     symbol |-> symbol, error |-> ""]

define_builtin(ts, k, index, name) ==
    IF k # 1
    THEN [tables |-> ts, symbol |-> NoSymbol,
          error |-> "builtins can only be defined in the global symbol table"]
    ELSE LET symbol == Symbol(name, "BUILTIN", index) IN
         [tables |-> [ts EXCEPT ![k].store = DictSet(@, name, symbol)],
          symbol |-> symbol, error |-> ""]

\* _define_free that appends the Free symbol it makes, the original lost
define_free_appends_free(ts, k, original_symbol) ==
    LET symbol == Symbol(original_symbol.name, "FREE", Len(ts[k].free_symbols)) IN
    [tables |-> [ts EXCEPT ![k].free_symbols = Append(@, symbol),
                           ![k].store = DictSet(@, original_symbol.name, symbol)],
     symbol |-> symbol, error |-> ""]

\* _define_free that numbers the captures from one
define_free_from_one(ts, k, original_symbol) ==
    LET free_symbols == Append(ts[k].free_symbols, original_symbol)
        symbol == Symbol(original_symbol.name, "FREE", Len(free_symbols)) IN
    [tables |-> [ts EXCEPT ![k].free_symbols = free_symbols,
                           ![k].store = DictSet(@, original_symbol.name, symbol)],
     symbol |-> symbol, error |-> ""]

define_free(ts, k, original_symbol) ==
    LET free_symbols == Append(ts[k].free_symbols, original_symbol)
        symbol == Symbol(original_symbol.name, "FREE", Len(free_symbols) - 1) IN
    [tables |-> [ts EXCEPT ![k].free_symbols = free_symbols,
                           ![k].store = DictSet(@, original_symbol.name, symbol)],
     symbol |-> symbol, error |-> ""]

\* define_function_name that binds the name as one more local
define_function_name_as_local(ts, k, function_name) ==
    [tables |-> [ts EXCEPT ![k].store =
                    DictSet(@, function_name, Symbol(function_name, "LOCAL", 0))],
     symbol |-> Symbol(function_name, "LOCAL", 0), error |-> ""]

\* define_function_name that takes a local index for the name
define_function_name_counts_a_local(ts, k, function_name) ==
    [tables |-> [ts EXCEPT ![k].store = DictSet(@, function_name,
                                                Symbol(function_name, "FUNCTION", 0)),
                           ![k].next_index = @ + 1],
     symbol |-> Symbol(function_name, "FUNCTION", 0), error |-> ""]

define_function_name(ts, k, function_name) ==
    LET symbol == Symbol(function_name, "FUNCTION", 0) IN
    [tables |-> [ts EXCEPT ![k].store = DictSet(@, function_name, symbol)],
     symbol |-> symbol, error |-> ""]

\* resolve that captures whatever the outer table resolves the name to, globals too
RECURSIVE resolve_captures_globals(_, _, _)
resolve_captures_globals(ts, k, name) ==
    IF name \in DOMAIN ts[k].store
    THEN [tables |-> ts, symbol |-> ts[k].store[name], error |-> ""]
    ELSE IF k > 1
    THEN LET r == resolve_captures_globals(ts, k - 1, name) IN
         IF r.symbol = NoSymbol THEN r
         ELSE IF r.symbol.scope \in {"BUILTIN"} THEN r
         ELSE define_free(r.tables, k, r.symbol)
    ELSE [tables |-> ts, symbol |-> NoSymbol, error |-> ""]

\* resolve that lets only globals through, and captures a built-in like a local
RECURSIVE resolve_captures_builtins(_, _, _)
resolve_captures_builtins(ts, k, name) ==
    IF name \in DOMAIN ts[k].store
    THEN [tables |-> ts, symbol |-> ts[k].store[name], error |-> ""]
    ELSE IF k > 1
    THEN LET r == resolve_captures_builtins(ts, k - 1, name) IN
         IF r.symbol = NoSymbol THEN r
         ELSE IF r.symbol.scope = "GLOBAL" THEN r
         ELSE define_free(r.tables, k, r.symbol)
    ELSE [tables |-> ts, symbol |-> NoSymbol, error |-> ""]

\* resolve that captures in the resolving table only, and drops what the tables between
\* it and the binder captured on the way
RECURSIVE resolve_forgets_the_tables_between(_, _, _)
resolve_forgets_the_tables_between(ts, k, name) ==
    IF name \in DOMAIN ts[k].store
    THEN [tables |-> ts, symbol |-> ts[k].store[name], error |-> ""]
    ELSE IF k > 1
    THEN LET r == resolve_forgets_the_tables_between(ts, k - 1, name) IN
         IF r.symbol = NoSymbol THEN r
         ELSE IF r.symbol.scope \in {"GLOBAL", "BUILTIN"} THEN r
         ELSE define_free(ts, k, r.symbol)
    ELSE [tables |-> ts, symbol |-> NoSymbol, error |-> ""]

RECURSIVE resolve(_, _, _)
resolve(ts, k, name) ==
    IF name \in DOMAIN ts[k].store
    THEN [tables |-> ts, symbol |-> ts[k].store[name], error |-> ""]
    ELSE IF k > 1
    THEN LET r == resolve(ts, k - 1, name) IN
         IF r.symbol = NoSymbol THEN r
         ELSE IF r.symbol.scope \in {"GLOBAL", "BUILTIN"} THEN r
         ELSE define_free(r.tables, k, r.symbol)
    ELSE [tables |-> ts, symbol |-> NoSymbol, error |-> ""]

(***************************************************************************)
(* monkey/ast.py: the nodes the compiler dispatches on, as records with    *)
(* the class in "kind".  A string literal's text is a sequence of          *)
(* character codes.                                                        *)
(***************************************************************************)
NoNode == [kind |-> "None"]
Program(statements) == [kind |-> "Program", statements |-> statements]
BlockStatement(statements) == [kind |-> "BlockStatement", statements |-> statements]
LetStatement(name, value) == [kind |-> "LetStatement", name |-> name, value |-> value]
ReturnStatement(return_value) == [kind |-> "ReturnStatement", return_value |-> return_value]
ExpressionStatement(expression) == [kind |-> "ExpressionStatement", expression |-> expression]
Identifier(value) == [kind |-> "Identifier", value |-> value]
IntegerLiteral(value) == [kind |-> "IntegerLiteral", value |-> value]
BooleanLiteral(value) == [kind |-> "BooleanLiteral", value |-> value]
StringLiteral(value) == [kind |-> "StringLiteral", value |-> value]
ArrayLiteral(elements) == [kind |-> "ArrayLiteral", elements |-> elements]
HashLiteral(pairs) == [kind |-> "HashLiteral", pairs |-> pairs]
IndexExpression(left, index) == [kind |-> "IndexExpression", left |-> left, index |-> index]
PrefixExpression(operator, right) ==
    [kind |-> "PrefixExpression", operator |-> operator, right |-> right]
InfixExpression(left, operator, right) ==
    [kind |-> "InfixExpression", left |-> left, operator |-> operator, right |-> right]
IfExpression(condition, consequence, alternative) ==
    [kind |-> "IfExpression", condition |-> condition, consequence |-> consequence,
     alternative |-> alternative]
CallExpression(function, arguments) ==
    [kind |-> "CallExpression", function |-> function, arguments |-> arguments]
\* name is "" for a literal no let statement names
FunctionLiteral(parameters, body, name) ==
    [kind |-> "FunctionLiteral", parameters |-> parameters, body |-> body, name |-> name]

(***************************************************************************)
(* The built-in registry, an ordered list: its names, in index order.      *)
(***************************************************************************)
BUILTINS == <<"len", "puts", "first", "last", "rest", "push">>

(***************************************************************************)
(* monkey/compiler.py: Compiler.  Its state is the record                  *)
(*   constants    state.constants                                          *)
(*   tables       the chain from the global table to self.symbol_table     *)
(*   scopes, scope_index                                                   *)
(*   error        the message of the exception raised, "" when none        *)
(*   log          history: one entry per compiled function literal         *)
(***************************************************************************)
\* EmittedInstruction; None is NoInstruction
EmittedInstruction(opcode, position) == [opcode |-> opcode, position |-> position]
NoInstruction == [opcode |-> 0 - 1, position |-> 0 - 1]

CompilationScope ==
    [instructions |-> <<>>, last_instruction |-> NoInstruction, prev_instruction |-> NoInstruction]

\* CompilerState(): a symbol table and the constants
CompilerState == [symbol_table |-> SymbolTable, constants |-> <<>>]

raise(c, message) == IF c.error # "" THEN c ELSE [c EXCEPT !.error = message]

RECURSIVE define_builtins(_, _)
define_builtins(c, i) ==
    IF i > Len(BUILTINS) \/ c.error # "" THEN c
    ELSE LET r == define_builtin(c.tables, Len(c.tables), i - 1, BUILTINS[i]) IN
         define_builtins(IF r.error # "" THEN raise(c, r.error) ELSE [c EXCEPT !.tables = r.tables],
                         i + 1)

\* Compiler.__init__(state)
Compiler(state) ==
    define_builtins([constants |-> state.constants, tables |-> <<state.symbol_table>>,
                     scopes |-> <<CompilationScope>>, scope_index |-> 0, error |-> "",
                     log |-> <<>>], 1)

\* self.scopes[self.scope_index]
current_scope(c) == c.scopes[c.scope_index + 1]

enter_scope(c) ==
    IF c.error # "" THEN c
    ELSE [c EXCEPT !.scopes = Append(@, CompilationScope),
                   !.scope_index = @ + 1,
                   !.tables = Append(@, SymbolTable)]

\* leave_scope that pops the scope and keeps the symbol table of the scope it leaves
leave_scope_keeps_the_symbol_table(c) ==
    IF c.error # "" THEN c
    ELSE IF c.scope_index = 0 THEN raise(c, "AssertionError")
    ELSE IF Len(c.tables) = 1
    THEN raise([c EXCEPT !.scopes = Front(@), !.scope_index = @ - 1],
               "Internal compiler error: self.symbol_table.outer is None")
    ELSE [c EXCEPT !.scopes = Front(@), !.scope_index = @ - 1]

\* leave_scope returns the instructions of the scope it pops: read them before the call
leave_scope(c) ==
    IF c.error # "" THEN c
    ELSE IF c.scope_index = 0 THEN raise(c, "AssertionError")
    ELSE IF Len(c.tables) = 1
    THEN raise([c EXCEPT !.scopes = Front(@), !.scope_index = @ - 1],
               "Internal compiler error: self.symbol_table.outer is None")
    ELSE [c EXCEPT !.scopes = Front(@), !.scope_index = @ - 1, !.tables = Front(@)]

\* add_constant that reuses the entry of an equal constant
add_constant_without_duplicates(c, constant) ==
    IF c.error # "" THEN c
    ELSE IF \E i \in 1..Len(c.constants) : ObjEq(c.constants[i], constant) THEN c
    ELSE [c EXCEPT !.constants = Append(@, constant)]

\* add_constant returns the index of the constant it appends: Len(c.constants) - 1 afterwards
add_constant(c, constant) ==
    IF c.error # "" THEN c ELSE [c EXCEPT !.constants = Append(@, constant)]

\* add_instruction returns the position it writes at: the length of the buffer before
add_instruction(c, instruction) ==
    IF c.error # "" THEN c
    ELSE [c EXCEPT !.scopes[c.scope_index + 1].instructions = @ \o instruction]

set_last_instruction(c, opcode, position) ==
    IF c.error # "" THEN c
    ELSE [c EXCEPT !.scopes[c.scope_index + 1].prev_instruction =
                       current_scope(c).last_instruction,
                   !.scopes[c.scope_index + 1].last_instruction =
                       EmittedInstruction(opcode, position)]

last_instruction_is_pop(c) ==
    /\ current_scope(c).last_instruction # NoInstruction
    /\ current_scope(c).last_instruction.opcode = Opcode.POP

last_instruction_is_return_value(c) ==
    /\ current_scope(c).last_instruction # NoInstruction
    /\ current_scope(c).last_instruction.opcode = Opcode.RETURN_VALUE

remove_last_pop(c) ==
    IF c.error # "" THEN c
    ELSE IF current_scope(c).last_instruction = NoInstruction THEN raise(c, "AssertionError")
    ELSE [c EXCEPT !.scopes[c.scope_index + 1].instructions =
                       SubSeq(@, 1, current_scope(c).last_instruction.position),
                   !.scopes[c.scope_index + 1].last_instruction =
                       current_scope(c).prev_instruction]

\* replace_instruction that inserts the new instruction and overwrites nothing
replace_instruction_inserts(c, position, new_instruction) ==
    IF c.error # "" THEN c
    ELSE LET ins == current_scope(c).instructions IN
         [c EXCEPT !.scopes[c.scope_index + 1].instructions =
                       SubSeq(ins, 1, position) \o new_instruction
                       \o SubSeq(ins, position + 1, Len(ins))]

\* instructions[position:position+len(new_instruction)] = new_instruction, a slice assignment
replace_instruction(c, position, new_instruction) ==
    IF c.error # "" THEN c
    ELSE LET ins == current_scope(c).instructions
             n == Len(new_instruction) IN
         [c EXCEPT !.scopes[c.scope_index + 1].instructions =
                       SubSeq(ins, 1, position) \o new_instruction
                       \o SubSeq(ins, position + n + 1, Len(ins))]

replace_last_pop_with_return_value(c) ==
    IF c.error # "" THEN c
    ELSE LET last_pos == current_scope(c).last_instruction.position
             c1 == replace_instruction(c, last_pos, make(Opcode.RETURN_VALUE, <<>>).bytes) IN
         [c1 EXCEPT !.scopes[c.scope_index + 1].last_instruction.opcode = Opcode.RETURN_VALUE]

\* self.replace_instruction(position, new_instruction)
change_instruction(c, position, new_instruction) ==
    IF new_instruction.error # "" THEN raise(c, new_instruction.error)
    ELSE replace_instruction(c, position, new_instruction.bytes)

\* change_operand that rewrites nothing: the placeholder stays
change_operand_keeps_placeholder(c, position, operand) == c

change_operand(c, position, operand) ==
    IF c.error # "" THEN c
    ELSE change_instruction(c, position,
                            make(current_scope(c).instructions[position + 1], <<operand>>))

\* position = self.add_instruction(instruction); self.set_last_instruction(opcode, position)
emit_instruction(c, opcode, instruction) ==
    IF instruction.error # "" THEN raise(c, instruction.error)
    ELSE set_last_instruction(add_instruction(c, instruction.bytes), opcode,
                              Len(current_scope(c).instructions))

\* emit returns the position of the instruction: the length of the buffer before
emit(c, opcode, operands) ==
    IF c.error # "" THEN c ELSE emit_instruction(c, opcode, make(opcode, operands))

load_symbol(c, symbol) ==
    CASE symbol.scope = "GLOBAL" -> emit(c, Opcode.GET_GLOBAL, <<symbol.index>>)
      [] symbol.scope = "LOCAL" -> emit(c, Opcode.GET_LOCAL, <<symbol.index>>)
      [] symbol.scope = "BUILTIN" -> emit(c, Opcode.GET_BUILTIN, <<symbol.index>>)
      [] symbol.scope = "FREE" -> emit(c, Opcode.GET_FREE, <<symbol.index>>)
      [] symbol.scope = "FUNCTION" -> emit(c, Opcode.CURRENT_CLOSURE, <<>>)
      [] OTHER -> c

RECURSIVE compile(_, _)
RECURSIVE compile_all(_, _)
RECURSIVE compile_pairs(_, _)
RECURSIVE define_parameters(_, _)
RECURSIVE load_symbols(_, _)

\* for node in nodes: self.compile(node)
compile_all(c, nodes) ==
    IF nodes = <<>> \/ c.error # "" THEN c
    ELSE compile_all(compile(c, Head(nodes)), Tail(nodes))

\* for key, value in node.pairs.items(): self.compile(key); self.compile(value)
compile_pairs(c, pairs) ==
    IF pairs = <<>> \/ c.error # "" THEN c
    ELSE compile_pairs(compile(compile(c, Head(pairs)[1]), Head(pairs)[2]), Tail(pairs))

\* for parameter in node.parameters: self.symbol_table.define(parameter.value)
define_parameters(c, parameters) ==
    IF parameters = <<>> \/ c.error # "" THEN c
    ELSE define_parameters([c EXCEPT !.tables = define(c.tables, Len(c.tables), Head(parameters)).tables],
                           Tail(parameters))

\* for s in free_symbols: self.load_symbol(s)
load_symbols(c, symbols) ==
    IF symbols = <<>> \/ c.error # "" THEN c
    ELSE load_symbols(load_symbol(c, Head(symbols)), Tail(symbols))

\* The steps of compile_if_expression, last first; each takes the compiler as the
\* step before left it, and the positions the earlier steps returned.
\* after_alternative_pos = len(instructions); self.change_operand(jump_pos, after_alternative_pos)
if_patch_jump(c, jump_pos) ==
    change_operand(c, jump_pos, Len(current_scope(c).instructions))

\* if self.last_instruction_is_pop(): self.remove_last_pop()
if_remove_last_pop(c) ==
    IF c.error = "" /\ last_instruction_is_pop(c) THEN remove_last_pop(c) ELSE c

\* if not node.alternative: emit NULL, else: compile it and remove its last POP
if_alternative(c, node, jump_pos) ==
    if_patch_jump(IF node.alternative = NoNode THEN emit(c, Opcode.NULL, <<>>)
                  ELSE if_remove_last_pop(compile(c, node.alternative)),
                  jump_pos)

\* after_consequence_pos = len(instructions); self.change_operand(jump_not_truthy_pos, ...)
if_patch_jump_not_truthy(c, node, jump_not_truthy_pos, jump_pos) ==
    if_alternative(change_operand(c, jump_not_truthy_pos, Len(current_scope(c).instructions)),
                   node, jump_pos)

\* jump_pos = self.emit(Opcode.JUMP, [9999])
if_jump(c, node, jump_not_truthy_pos) ==
    if_patch_jump_not_truthy(emit(c, Opcode.JUMP, <<9999>>), node, jump_not_truthy_pos,
                             Len(current_scope(c).instructions))

\* jump_not_truthy_pos = self.emit(Opcode.JUMP_NOT_TRUTHY, [9999]); compile the consequence
if_consequence(c, node) ==
    if_jump(if_remove_last_pop(compile(emit(c, Opcode.JUMP_NOT_TRUTHY, <<9999>>),
                                       node.consequence)),
            node, Len(current_scope(c).instructions))

compile_if_expression(c, node) ==
    IF c.error # "" THEN c ELSE if_consequence(compile(c, node.condition), node)

\* compile_expression_statement without the POP: the value stays on the stack
compile_expression_statement_keeps_value(c, node) ==
    compile(c, node.expression)

compile_expression_statement(c, node) ==
    emit(compile(c, node.expression), Opcode.POP, <<>>)

compile_array_literal(c, node) ==
    emit(compile_all(c, node.elements), Opcode.ARRAY, <<Len(node.elements)>>)

compile_hash_literal(c, node) ==
    emit(compile_pairs(c, node.pairs), Opcode.HASH, <<Len(node.pairs)>>)

\* The steps of compile_function_literal, last first; each takes the compiler as the
\* step before left it, and the locals the earlier steps set.
\* history: what this literal compiled to, and what the enclosing scope emitted for it
function_log(c, node, free_symbols, num_locals, instructions, loads_pos) ==
    IF c.error # "" THEN c
    ELSE [c EXCEPT !.log = Append(@,
             [node |-> node, free_symbols |-> free_symbols, num_locals |-> num_locals,
              const_index |-> Len(c.constants) - 1, instructions |-> instructions,
              emitted |-> SubSeq(current_scope(c).instructions, loads_pos + 1,
                                 Len(current_scope(c).instructions))])]

\* self.emit(Opcode.CLOSURE, [self.add_constant(compiled_function), len(free_symbols)])
function_closure(c, node, free_symbols, num_locals, instructions, loads_pos) ==
    function_log(emit(c, Opcode.CLOSURE, <<Len(c.constants) - 1, Len(free_symbols)>>),
                 node, free_symbols, num_locals, instructions, loads_pos)

\* for s in free_symbols: self.load_symbol(s); compiled_function = CompiledFunction(...)
function_loads(c, node, free_symbols, num_locals, instructions) ==
    function_closure(add_constant(load_symbols(c, free_symbols),
                                  CompiledFunction(instructions, num_locals,
                                                   Len(node.parameters))),
                     node, free_symbols, num_locals, instructions,
                     Len(current_scope(c).instructions))

\* free_symbols, num_locals = the table's; instructions = self.leave_scope()
function_leave(c, node) ==
    function_loads(leave_scope(c), node, Last(c.tables).free_symbols,
                   Last(c.tables).next_index, current_scope(c).instructions)

\* compile_function_literal that never appends a RETURN
function_return_never_appended(c) == c

\* if not self.last_instruction_is_return_value(): self.emit(Opcode.RETURN)
function_return(c) ==
    IF c.error = "" /\ ~last_instruction_is_return_value(c)
    THEN emit(c, Opcode.RETURN, <<>>) ELSE c

\* if self.last_instruction_is_pop(): self.replace_last_pop_with_return_value()
function_replace_last_pop(c) ==
    IF c.error = "" /\ last_instruction_is_pop(c)
    THEN replace_last_pop_with_return_value(c) ELSE c

\* if function_name := node.name: self.symbol_table.define_function_name(function_name)
function_name(c, node) ==
    IF c.error = "" /\ node.name # ""
    THEN [c EXCEPT !.tables = define_function_name(c.tables, Len(c.tables), node.name).tables]
    ELSE c

compile_function_literal(c, node) ==
    function_leave(
        function_return(
            function_replace_last_pop(
                compile(define_parameters(function_name(enter_scope(c), node), node.parameters),
                        node.body))),
        node)

compile_return_statement(c, node) ==
    emit(compile(c, node.return_value), Opcode.RETURN_VALUE, <<>>)

compile_call_expression(c, node) ==
    emit(compile_all(compile(c, node.function), node.arguments), Opcode.CALL,
         <<Len(node.arguments)>>)

\* self.emit(SET_GLOBAL if symbol.scope == GLOBAL else SET_LOCAL, [symbol.index])
let_set(c, symbol) ==
    emit(c, IF symbol.scope = "GLOBAL" THEN Opcode.SET_GLOBAL ELSE Opcode.SET_LOCAL,
         <<symbol.index>>)

\* symbol = self.symbol_table.define(node.name.value); self.compile(node.value)
let_define(c, node, defined) ==
    let_set(compile([c EXCEPT !.tables = defined.tables], node.value), defined.symbol)

compile_let_statement(c, node) ==
    IF c.error # "" THEN c
    ELSE let_define(c, node, define(c.tables, Len(c.tables), node.name))

\* symbol = self.symbol_table.resolve(node.value): None raises, else load_symbol
identifier_load(c, resolved) ==
    IF resolved.symbol = NoSymbol THEN raise(c, "undefined variable or builtin")
    ELSE load_symbol([c EXCEPT !.tables = resolved.tables], resolved.symbol)

compile_identifier(c, node) ==
    identifier_load(c, resolve(c.tables, Len(c.tables), node.value))

\* match node.operator of a PrefixExpression
prefix_operator(c, operator) ==
    CASE operator = "!" -> emit(c, Opcode.BANG, <<>>)
      [] operator = "-" -> emit(c, Opcode.MINUS, <<>>)
      [] OTHER -> raise(c, "unknown operator")

compile_prefix_expression(c, node) ==
    prefix_operator(compile(c, node.right), node.operator)

\* match node.operator of an InfixExpression
infix_operator(c, operator) ==
    CASE operator = "+" -> emit(c, Opcode.ADD, <<>>)
      [] operator = "-" -> emit(c, Opcode.SUBTRACT, <<>>)
      [] operator = "*" -> emit(c, Opcode.MULTIPLY, <<>>)
      [] operator = "/" -> emit(c, Opcode.DIVIDE, <<>>)
      [] operator = "<" -> emit(c, Opcode.LESS_THAN, <<>>)
      [] operator = ">" -> emit(c, Opcode.GREATER_THAN, <<>>)
      [] operator = "==" -> emit(c, Opcode.EQUAL, <<>>)
      [] operator = "!=" -> emit(c, Opcode.NOT_EQUAL, <<>>)
      [] OTHER -> raise(c, "unknown operator")

compile_infix_expression(c, node) ==
    infix_operator(compile(compile(c, node.left), node.right), node.operator)

\* self.emit(Opcode.CONSTANT_, [self.add_constant(constant)])
emit_constant(c) == emit(c, Opcode.CONSTANT_, <<Len(c.constants) - 1>>)

compile(c, node) ==
    IF c.error # "" THEN c
    ELSE CASE node.kind = "Program" -> compile_all(c, node.statements)
           [] node.kind = "BlockStatement" -> compile_all(c, node.statements)
           [] node.kind = "LetStatement" -> compile_let_statement(c, node)
           [] node.kind = "Identifier" -> compile_identifier(c, node)
           [] node.kind = "IntegerLiteral" -> emit_constant(add_constant(c, Integer(node.value)))
           [] node.kind = "StringLiteral" -> emit_constant(add_constant(c, String(node.value)))
           [] node.kind = "ArrayLiteral" -> compile_array_literal(c, node)
           [] node.kind = "HashLiteral" -> compile_hash_literal(c, node)
           [] node.kind = "BooleanLiteral" ->
                IF node.value THEN emit(c, Opcode.TRUE, <<>>) ELSE emit(c, Opcode.FALSE, <<>>)
           [] node.kind = "PrefixExpression" -> compile_prefix_expression(c, node)
           [] node.kind = "InfixExpression" -> compile_infix_expression(c, node)
           [] node.kind = "IndexExpression" ->
                emit(compile(compile(c, node.left), node.index), Opcode.INDEX, <<>>)
           [] node.kind = "IfExpression" -> compile_if_expression(c, node)
           [] node.kind = "ExpressionStatement" -> compile_expression_statement(c, node)
           [] node.kind = "FunctionLiteral" -> compile_function_literal(c, node)
           [] node.kind = "ReturnStatement" -> compile_return_statement(c, node)
           [] node.kind = "CallExpression" -> compile_call_expression(c, node)
           [] OTHER -> raise(c, "unknown node")

\* Compiler.bytecode()
Bytecode(c) == [instructions |-> c.scopes[c.scope_index + 1].instructions, constants |-> c.constants]

(***************************************************************************)
(* monkey/vm.py: VirtualMachine.  Its state is the record                  *)
(*   [constants, stack, sp, frames, globals, last, error]                  *)
(* with stack and globals kept as their written prefix.                    *)
(***************************************************************************)
DEFAULT_STACK_SIZE == 2048
DEFAULT_GLOBALS_SIZE == 65536
DEFAULT_MAX_FRAMES == 1024

Frame(cl, bp) == [cl |-> cl, bp |-> bp, ip |-> 0 - 1]

\* list[i] of a list of `size` slots kept as its written prefix: a negative i counts from the end
list_index_ok(size, i) == i >= 0 - size /\ i < size
list_index(size, i) == IF i < 0 THEN i + size ELSE i
list_get(prefix, size, i) ==
    LET j == list_index(size, i) IN IF j < Len(prefix) THEN prefix[j + 1] ELSE NULL
list_set(prefix, size, i, value) ==
    LET j == list_index(size, i) IN
    [n \in 1..(IF j < Len(prefix) THEN Len(prefix) ELSE j + 1) |->
        IF n = j + 1 THEN value ELSE IF n <= Len(prefix) THEN prefix[n] ELSE NULL]

\* VirtualMachine.__init__(bytecode, state)
VirtualMachine(bc, state_globals) ==
    [constants |-> bc.constants, stack |-> <<>>, sp |-> 0, globals |-> state_globals,
     frames |-> <<Frame(Closure(CompiledFunction(bc.instructions, 0, 0), <<>>), 0)>>,
     last |-> NoObject, error |-> ""]

vm_raise(vm, message) == IF vm.error # "" THEN vm ELSE [vm EXCEPT !.error = message]

current_frame(vm) == Last(vm.frames)

push_frame(vm, frame) ==
    IF vm.error # "" THEN vm ELSE [vm EXCEPT !.frames = Append(@, frame)]

\* pop_frame returns the frame it removes: Last(vm.frames) before the call
pop_frame(vm) ==
    IF vm.error # "" THEN vm
    ELSE IF vm.frames = <<>> THEN vm_raise(vm, "AssertionError")
    ELSE [vm EXCEPT !.frames = Front(@)]

push_stack(vm, value) ==
    IF vm.error # "" THEN vm
    ELSE IF vm.sp = DEFAULT_STACK_SIZE THEN vm_raise(vm, "Stack overflow")
    ELSE IF ~list_index_ok(DEFAULT_STACK_SIZE, vm.sp) THEN vm_raise(vm, "IndexError")
    ELSE [vm EXCEPT !.stack = list_set(@, DEFAULT_STACK_SIZE, vm.sp, value), !.sp = @ + 1]

\* pop_stack without the test for an empty stack: the index wraps to the last slot
pop_stack_of_an_empty_stack(vm) ==
    IF vm.error # "" THEN vm
    ELSE IF ~list_index_ok(DEFAULT_STACK_SIZE, vm.sp - 1) THEN vm_raise(vm, "IndexError")
    ELSE [vm EXCEPT !.last = list_get(vm.stack, DEFAULT_STACK_SIZE, vm.sp - 1), !.sp = @ - 1]

\* pop_stack that returns the value without writing it to last
pop_stack_forgets_last(vm) ==
    IF vm.error # "" THEN vm
    ELSE IF vm.sp = 0 THEN vm_raise(vm, "Stack underflow")
    ELSE IF ~list_index_ok(DEFAULT_STACK_SIZE, vm.sp - 1) THEN vm_raise(vm, "IndexError")
    ELSE [vm EXCEPT !.sp = @ - 1]

\* pop_stack that also clears the slot below the popped one
pop_stack_clears_the_slot_below(vm) ==
    IF vm.error # "" THEN vm
    ELSE IF vm.sp = 0 THEN vm_raise(vm, "Stack underflow")
    ELSE IF ~list_index_ok(DEFAULT_STACK_SIZE, vm.sp - 1) THEN vm_raise(vm, "IndexError")
    ELSE [vm EXCEPT !.last = list_get(vm.stack, DEFAULT_STACK_SIZE, vm.sp - 1), !.sp = @ - 1,
                    !.stack = IF vm.sp >= 2 THEN [@ EXCEPT ![vm.sp - 1] = NULL] ELSE @]

\* pop_stack returns self.last: vm.last after the call
pop_stack(vm) ==
    IF vm.error # "" THEN vm
    ELSE IF vm.sp = 0 THEN vm_raise(vm, "Stack underflow")
    ELSE IF ~list_index_ok(DEFAULT_STACK_SIZE, vm.sp - 1) THEN vm_raise(vm, "IndexError")
    ELSE [vm EXCEPT !.last = list_get(vm.stack, DEFAULT_STACK_SIZE, vm.sp - 1), !.sp = @ - 1]

\* self.stack[i], a read that may raise: [error, value]
stack_at(vm, i) ==
    IF list_index_ok(DEFAULT_STACK_SIZE, i)
    THEN [error |-> "", value |-> list_get(vm.stack, DEFAULT_STACK_SIZE, i)]
    ELSE [error |-> "IndexError", value |-> NULL]

\* read_ushort and read_ubyte return the operand: operand_ushort and operand_ubyte before the call
operand_ok(vm, width) ==
    current_frame(vm).ip + width < Len(current_frame(vm).cl.fn.instructions)
operand_ushort(vm) ==
    unpack_ushort(current_frame(vm).cl.fn.instructions, current_frame(vm).ip + 1)
operand_ubyte(vm) ==
    unpack_ubyte(current_frame(vm).cl.fn.instructions, current_frame(vm).ip + 1)

read_ushort(vm) ==
    IF vm.error # "" THEN vm
    ELSE IF ~operand_ok(vm, 2) THEN vm_raise(vm, "struct.error")
    ELSE [vm EXCEPT !.frames[Len(vm.frames)].ip = @ + 2]

read_ubyte(vm) ==
    IF vm.error # "" THEN vm
    ELSE IF ~operand_ok(vm, 1) THEN vm_raise(vm, "struct.error")
    ELSE [vm EXCEPT !.frames[Len(vm.frames)].ip = @ + 1]

\* self.current_frame().ip = position - 1
set_ip(vm, ip) ==
    IF vm.error # "" THEN vm ELSE [vm EXCEPT !.frames[Len(vm.frames)].ip = ip]

execute_binary_operation(vm, opcode) ==
    LET v1 == pop_stack(vm)
        right == v1.last
        v2 == pop_stack(v1)
        left == v2.last IN
    IF v2.error # "" THEN v2
    ELSE IF left.type = "STRING" /\ opcode = Opcode.ADD /\ right.type = "STRING"
    THEN push_stack(v2, String(left.value \o right.value))
    ELSE IF left.type = "INTEGER" /\ right.type = "INTEGER"
    THEN CASE opcode = Opcode.ADD -> push_stack(v2, Integer(left.value + right.value))
           [] opcode = Opcode.SUBTRACT -> push_stack(v2, Integer(left.value - right.value))
           [] opcode = Opcode.MULTIPLY -> push_stack(v2, Integer(left.value * right.value))
           [] opcode = Opcode.DIVIDE ->
                IF right.value = 0 THEN vm_raise(v2, "ZeroDivisionError")
                ELSE push_stack(v2, Integer(FloorDiv(left.value, right.value)))
           [] OTHER -> vm_raise(v2, "unsupported types for binary operation")
    ELSE vm_raise(v2, "unsupported types for binary operation")

\* The match has no default case: a pair of operands no case matches pushes nothing.
execute_comparison(vm, opcode) ==
    LET v1 == pop_stack(vm)
        right == v1.last
        v2 == pop_stack(v1)
        left == v2.last IN
    IF v2.error # "" THEN v2
    ELSE IF opcode = Opcode.EQUAL THEN push_stack(v2, make_boolean(ObjEq(left, right)))
    ELSE IF opcode = Opcode.NOT_EQUAL THEN push_stack(v2, make_boolean(~ObjEq(left, right)))
    ELSE IF left.type = "STRING" /\ right.type = "STRING"
    THEN CASE opcode = Opcode.LESS_THAN ->
                push_stack(v2, make_boolean(StrLess(left.value, right.value)))
           [] opcode = Opcode.GREATER_THAN ->
                push_stack(v2, make_boolean(StrLess(right.value, left.value)))
           [] OTHER -> vm_raise(v2, "unknown operator")
    ELSE IF left.type = "INTEGER" /\ right.type = "INTEGER"
    THEN CASE opcode = Opcode.LESS_THAN -> push_stack(v2, make_boolean(left.value < right.value))
           [] opcode = Opcode.GREATER_THAN -> push_stack(v2, make_boolean(left.value > right.value))
           [] OTHER -> vm_raise(v2, "unknown operator")
    ELSE IF left.type = "BOOLEAN" /\ right.type = "BOOLEAN"
    THEN vm_raise(v2, "unknown operator")
    ELSE v2

execute_constant(vm) ==
    LET operand == operand_ushort(vm)
        v1 == read_ushort(vm) IN
    IF v1.error # "" THEN v1
    ELSE IF operand >= Len(v1.constants) THEN vm_raise(v1, "IndexError")
    ELSE push_stack(v1, v1.constants[operand + 1])

execute_minus(vm) ==
    LET v1 == pop_stack(vm)
        operand == v1.last IN
    IF v1.error # "" THEN v1
    ELSE IF operand.type # "INTEGER" THEN vm_raise(v1, "unsupported type for negation")
    ELSE push_stack(v1, Integer(0 - operand.value))

execute_bang(vm) ==
    LET v1 == pop_stack(vm)
        operand == v1.last IN
    IF v1.error # "" THEN v1 ELSE push_stack(v1, make_boolean(~is_truthy(operand)))

\* execute_index_expression without the test for a negative index: Python's list
\* indexing counts a negative index from the end
execute_index_expression_from_the_end(vm) ==
    LET v1 == pop_stack(vm)
        index == v1.last
        v2 == pop_stack(v1)
        container == v2.last IN
    IF v2.error # "" THEN v2
    ELSE IF container.type = "ARRAY" /\ index.type = "INTEGER"
    THEN IF index.value > Len(container.elements) - 1
            \/ index.value < 0 - Len(container.elements)
         THEN push_stack(v2, NULL)
         ELSE push_stack(v2, container.elements[
                  (IF index.value < 0 THEN index.value + Len(container.elements)
                   ELSE index.value) + 1])
    ELSE IF container.type = "HASH"
    THEN IF ~hashable(index) THEN vm_raise(v2, "TypeError")
         ELSE push_stack(v2, pairs_get(container.pairs, index, NULL))
    ELSE vm_raise(v2, "index operator not supported")

execute_index_expression(vm) ==
    LET v1 == pop_stack(vm)
        index == v1.last
        v2 == pop_stack(v1)
        container == v2.last IN
    IF v2.error # "" THEN v2
    ELSE IF container.type = "ARRAY" /\ index.type = "INTEGER"
    THEN IF index.value < 0 \/ index.value > Len(container.elements) - 1
         THEN push_stack(v2, NULL)
         ELSE push_stack(v2, container.elements[index.value + 1])
    ELSE IF container.type = "HASH"
    THEN IF ~hashable(index) THEN vm_raise(v2, "TypeError")
         ELSE push_stack(v2, pairs_get(container.pairs, index, NULL))
    ELSE vm_raise(v2, "index operator not supported")

(***************************************************************************)
(* The built-in functions: the argument types inspect finds in each        *)
(* signature, and the callable.                                            *)
(***************************************************************************)
argument_types(name) ==
    CASE name = "len" -> <<{"STRING", "ARRAY", "HASH"}>>
      [] name = "puts" -> <<{"STRING", "INTEGER", "BOOLEAN"}>>
      [] name \in {"first", "last", "rest"} -> <<{"ARRAY"}>>
      [] name = "push" -> <<{"ARRAY"}, {"*"}>>
      [] OTHER -> <<>>

new_builtin_len(object) ==
    CASE object.type = "STRING" -> Integer(Len(object.value))
      [] object.type = "ARRAY" -> Integer(Len(object.elements))
      [] OTHER -> Integer(Len(object.pairs))

new_builtin_first(array) ==
    IF Len(array.elements) # 0 THEN array.elements[1] ELSE NULL

new_builtin_last(array) ==
    IF Len(array.elements) # 0 THEN Last(array.elements) ELSE NULL

new_builtin_rest(array) ==
    IF Len(array.elements) # 0 THEN Array(Tail(array.elements)) ELSE NULL

builtin_callable(name, arguments) ==
    CASE name = "len" -> new_builtin_len(arguments[1])
      [] name = "first" -> new_builtin_first(arguments[1])
      [] name = "last" -> new_builtin_last(arguments[1])
      [] name = "rest" -> new_builtin_rest(arguments[1])
      [] name = "push" -> Array(Append(arguments[1].elements, arguments[2]))
      [] OTHER -> NULL

\* call_builtin that pushes the result above the builtin instead of over it
call_builtin_keeps_the_builtin(vm, builtin, num_arguments) ==
    LET types == argument_types(builtin.name)
        arguments == [i \in 1..num_arguments |->
                         list_get(vm.stack, DEFAULT_STACK_SIZE, vm.sp - num_arguments + i - 1)] IN
    IF vm.error # "" THEN vm
    ELSE IF Len(types) # num_arguments THEN vm_raise(vm, "wrong number of arguments")
    ELSE IF vm.sp - num_arguments < 0 THEN vm_raise(vm, "TypeError")
    ELSE IF \E i \in 1..num_arguments : "*" \notin types[i] /\ arguments[i].type \notin types[i]
    THEN vm_raise(vm, "argument not supported")
    ELSE push_stack([vm EXCEPT !.sp = vm.sp - num_arguments],
                    builtin_callable(builtin.name, arguments))

call_builtin(vm, builtin, num_arguments) ==
    LET types == argument_types(builtin.name)
        arguments == [i \in 1..num_arguments |->
                         list_get(vm.stack, DEFAULT_STACK_SIZE, vm.sp - num_arguments + i - 1)] IN
    IF vm.error # "" THEN vm
    ELSE IF Len(types) # num_arguments THEN vm_raise(vm, "wrong number of arguments")
    ELSE IF vm.sp - num_arguments < 0 THEN vm_raise(vm, "TypeError")
    ELSE IF \E i \in 1..num_arguments : "*" \notin types[i] /\ arguments[i].type \notin types[i]
    THEN vm_raise(vm, "argument not supported")
    ELSE push_stack([vm EXCEPT !.sp = vm.sp - num_arguments - 1],
                    builtin_callable(builtin.name, arguments))

\* call_closure with sp set past the arguments only, the locals forgotten
call_closure_without_locals(vm, closure, num_arguments) ==
    IF vm.error # "" THEN vm
    ELSE IF closure.fn.num_parameters # num_arguments
    THEN vm_raise(vm, "wrong number of arguments")
    ELSE LET frame == Frame(closure, vm.sp - num_arguments) IN
         [push_frame(vm, frame) EXCEPT !.sp = frame.bp + closure.fn.num_parameters]

\* call_closure without the comparison of num_parameters and num_arguments
call_closure_of_any_arity(vm, closure, num_arguments) ==
    IF vm.error # "" THEN vm
    ELSE LET frame == Frame(closure, vm.sp - num_arguments) IN
         [push_frame(vm, frame) EXCEPT !.sp = frame.bp + closure.fn.num_locals]

call_closure(vm, closure, num_arguments) ==
    IF vm.error # "" THEN vm
    ELSE IF closure.fn.num_parameters # num_arguments
    THEN vm_raise(vm, "wrong number of arguments")
    ELSE LET frame == Frame(closure, vm.sp - num_arguments) IN
         [push_frame(vm, frame) EXCEPT !.sp = frame.bp + closure.fn.num_locals]

execute_call(vm) ==
    LET num_args == operand_ubyte(vm)
        v1 == read_ubyte(vm)
        callee == stack_at(v1, v1.sp - 1 - num_args) IN
    IF v1.error # "" THEN v1
    ELSE IF callee.error # "" THEN vm_raise(v1, callee.error)
    ELSE CASE callee.value.type = "CLOSURE" -> call_closure(v1, callee.value, num_args)
           [] callee.value.type = "BUILTIN" -> call_builtin(v1, callee.value, num_args)
           [] OTHER -> vm_raise(v1, "calling non-closure and non-builtin")

\* execute_return_value with sp reset to the base pointer, the callee's slot kept
execute_return_value_keeps_callee(vm) ==
    LET v1 == pop_stack(vm)
        return_value == v1.last
        v2 == pop_frame(v1) IN
    IF v2.error # "" THEN v2
    ELSE push_stack([v2 EXCEPT !.sp = Last(v1.frames).bp], return_value)

execute_return_value(vm) ==
    LET v1 == pop_stack(vm)
        return_value == v1.last
        v2 == pop_frame(v1) IN
    IF v2.error # "" THEN v2
    ELSE push_stack([v2 EXCEPT !.sp = Last(v1.frames).bp - 1], return_value)

execute_return(vm) ==
    LET v1 == pop_frame(vm) IN
    IF v1.error # "" THEN v1
    ELSE push_stack([v1 EXCEPT !.sp = Last(vm.frames).bp - 1], NULL)

\* push_closure that takes the free variables off the stack top first
push_closure_reversed(vm, const_index, num_free_variables) ==
    IF vm.error # "" THEN vm
    ELSE IF const_index >= Len(vm.constants) THEN vm_raise(vm, "IndexError")
    ELSE IF vm.constants[const_index + 1].type # "COMPILED_FUNCTION"
    THEN vm_raise(vm, "not a function")
    ELSE push_stack([vm EXCEPT !.sp = vm.sp - num_free_variables],
                    Closure(vm.constants[const_index + 1],
                            [i \in 1..num_free_variables |->
                                list_get(vm.stack, DEFAULT_STACK_SIZE, vm.sp - i)]))

push_closure(vm, const_index, num_free_variables) ==
    IF vm.error # "" THEN vm
    ELSE IF const_index >= Len(vm.constants) THEN vm_raise(vm, "IndexError")
    ELSE LET constant == vm.constants[const_index + 1] IN
         IF constant.type # "COMPILED_FUNCTION" THEN vm_raise(vm, "not a function")
         ELSE IF \E i \in 0..(num_free_variables - 1) :
                    ~list_index_ok(DEFAULT_STACK_SIZE, vm.sp - num_free_variables + i)
         THEN vm_raise(vm, "IndexError")
         ELSE LET free_variables ==
                      [i \in 1..num_free_variables |->
                          list_get(vm.stack, DEFAULT_STACK_SIZE,
                                   vm.sp - num_free_variables + i - 1)] IN
              push_stack([vm EXCEPT !.sp = vm.sp - num_free_variables],
                         Closure(constant, free_variables))

\* [self.pop_stack() for _ in range(n)]: [vm, values], the values in the order popped
RECURSIVE pop_values(_, _)
pop_values(vm, n) ==
    IF n = 0 \/ vm.error # "" THEN [vm |-> vm, values |-> <<>>]
    ELSE LET v1 == pop_stack(vm)
             r == pop_values(v1, n - 1) IN
         [vm |-> r.vm, values |-> IF v1.error # "" THEN <<>> ELSE <<v1.last>> \o r.values]

Reverse(s) == [i \in 1..Len(s) |-> s[Len(s) + 1 - i]]

execute_array(vm) ==
    LET array_length == operand_ushort(vm)
        v1 == read_ushort(vm)
        r == pop_values(v1, array_length) IN
    IF v1.error # "" THEN v1 ELSE push_stack(r.vm, Array(Reverse(r.values)))

\* for _ in range(hash_length): value = pop; key = pop; hash.pairs[key] = value
RECURSIVE pop_pairs(_, _, _)
pop_pairs(vm, n, pairs) ==
    IF n = 0 \/ vm.error # "" THEN [vm |-> vm, pairs |-> pairs]
    ELSE LET v1 == pop_stack(vm)
             value == v1.last
             v2 == pop_stack(v1)
             key == v2.last IN
         IF v2.error # "" THEN [vm |-> v2, pairs |-> pairs]
         ELSE IF ~hashable(key) THEN [vm |-> vm_raise(v2, "TypeError"), pairs |-> pairs]
         ELSE pop_pairs(v2, n - 1, pairs_set(pairs, key, value))

execute_hash(vm) ==
    LET hash_length == operand_ushort(vm)
        v1 == read_ushort(vm)
        r == pop_pairs(v1, hash_length, <<>>) IN
    IF v1.error # "" THEN v1 ELSE push_stack(r.vm, Hash(r.pairs))

\* JUMP that lands on itself
execute_jump_to_itself(vm) ==
    set_ip(read_ushort(vm), current_frame(vm).ip - 1)

execute_jump(vm) ==
    LET position == operand_ushort(vm) IN
    set_ip(read_ushort(vm), position - 1)

execute_jump_not_truthy(vm) ==
    LET position == operand_ushort(vm)
        v1 == pop_stack(read_ushort(vm)) IN
    IF v1.error # "" THEN v1
    ELSE IF ~is_truthy(v1.last) THEN set_ip(v1, position - 1) ELSE v1

execute_set_global(vm) ==
    LET global_index == operand_ushort(vm)
        v1 == pop_stack(read_ushort(vm)) IN
    IF v1.error # "" THEN v1
    ELSE [v1 EXCEPT !.globals = list_set(@, DEFAULT_GLOBALS_SIZE, global_index, v1.last)]

execute_get_global(vm) ==
    LET global_index == operand_ushort(vm)
        v1 == read_ushort(vm) IN
    IF v1.error # "" THEN v1
    ELSE push_stack(v1, list_get(v1.globals, DEFAULT_GLOBALS_SIZE, global_index))

\* SET_LOCAL that counts the local's slot from the bottom of the stack
execute_set_local_from_the_bottom(vm) ==
    LET local_index == operand_ubyte(vm)
        v1 == pop_stack(read_ubyte(vm))
        slot == local_index IN
    IF v1.error # "" THEN v1
    ELSE IF ~list_index_ok(DEFAULT_STACK_SIZE, slot) THEN vm_raise(v1, "IndexError")
    ELSE [v1 EXCEPT !.stack = list_set(@, DEFAULT_STACK_SIZE, slot, v1.last)]

execute_set_local(vm) ==
    LET local_index == operand_ubyte(vm)
        v1 == pop_stack(read_ubyte(vm))
        slot == current_frame(v1).bp + local_index IN
    IF v1.error # "" THEN v1
    ELSE IF ~list_index_ok(DEFAULT_STACK_SIZE, slot) THEN vm_raise(v1, "IndexError")
    ELSE [v1 EXCEPT !.stack = list_set(@, DEFAULT_STACK_SIZE, slot, v1.last)]

execute_get_local(vm) ==
    LET local_index == operand_ubyte(vm)
        v1 == read_ubyte(vm)
        value == stack_at(v1, current_frame(v1).bp + local_index) IN
    IF v1.error # "" THEN v1
    ELSE IF value.error # "" THEN vm_raise(v1, value.error)
    ELSE push_stack(v1, value.value)

execute_get_builtin(vm) ==
    LET builtin_index == operand_ubyte(vm)
        v1 == read_ubyte(vm) IN
    IF v1.error # "" THEN v1
    ELSE IF builtin_index >= Len(BUILTINS) THEN vm_raise(v1, "IndexError")
    ELSE push_stack(v1, Builtin(BUILTINS[builtin_index + 1]))

execute_get_free(vm) ==
    LET free_index == operand_ubyte(vm)
        v1 == read_ubyte(vm)
        current_closure == current_frame(v1).cl IN
    IF v1.error # "" THEN v1
    ELSE IF free_index >= Len(current_closure.free) THEN vm_raise(v1, "IndexError")
    ELSE push_stack(v1, current_closure.free[free_index + 1])

execute_closure(vm) ==
    LET const_index == operand_ushort(vm)
        v1 == read_ushort(vm)
        num_free_variables == operand_ubyte(v1)
        v2 == read_ubyte(v1) IN
    IF v2.error # "" THEN v2 ELSE push_closure(v2, const_index, num_free_variables)

execute_current_closure(vm) ==
    push_stack(vm, current_frame(vm).cl)

(***************************************************************************)
(* monkey/evaluator.py: Evaluator.eval, on the nodes that need no          *)
(* environment (literals, prefix and infix expressions, if expressions,    *)
(* array literals, index expressions, blocks and return statements).  A    *)
(* Python exception raised inside eval is the value PyException, which     *)
(* every caller hands on.                                                  *)
(***************************************************************************)
PyException(message) == [type |-> "EXCEPTION", message |-> message]

RECURSIVE evaluable(_)
evaluable(node) ==
    CASE node.kind \in {"IntegerLiteral", "BooleanLiteral", "StringLiteral"} -> TRUE
      [] node.kind \in {"Program", "BlockStatement"} ->
            \A i \in 1..Len(node.statements) : evaluable(node.statements[i])
      [] node.kind = "ExpressionStatement" -> evaluable(node.expression)
      [] node.kind = "ReturnStatement" -> evaluable(node.return_value)
      [] node.kind = "PrefixExpression" -> evaluable(node.right)
      [] node.kind = "InfixExpression" -> evaluable(node.left) /\ evaluable(node.right)
      [] node.kind = "IfExpression" ->
            /\ evaluable(node.condition)
            /\ evaluable(node.consequence)
            /\ node.alternative = NoNode \/ evaluable(node.alternative)
      [] node.kind = "ArrayLiteral" ->
            \A i \in 1..Len(node.elements) : evaluable(node.elements[i])
      [] node.kind = "IndexExpression" -> evaluable(node.left) /\ evaluable(node.index)
      [] OTHER -> FALSE

eval_prefix_expression(operator, right) ==
    CASE operator = "-" /\ right.type = "INTEGER" -> Integer(0 - right.value)
      [] operator = "!" /\ right.type = "INTEGER" -> make_boolean(right.value = 0)
      [] operator = "!" /\ right.type = "BOOLEAN" -> make_boolean(~right.value)
      [] operator = "!" /\ right.type = "NULL" -> TRUE_
      [] OTHER -> EvaluationError("unknown operator")

eval_infix_expression(left, operator, right) ==
    IF operator = "==" THEN make_boolean(ObjEq(left, right))
    ELSE IF operator = "!=" THEN make_boolean(~ObjEq(left, right))
    ELSE IF left.type = "INTEGER" /\ right.type = "INTEGER"
    THEN CASE operator = "+" -> Integer(left.value + right.value)
           [] operator = "-" -> Integer(left.value - right.value)
           [] operator = "*" -> Integer(left.value * right.value)
           [] operator = "/" ->
                IF right.value = 0 THEN PyException("ZeroDivisionError")
                ELSE Integer(FloorDiv(left.value, right.value))
           [] operator = "<" -> make_boolean(left.value < right.value)
           [] operator = ">" -> make_boolean(left.value > right.value)
           [] OTHER -> EvaluationError("unknown operator")
    ELSE IF left.type = "STRING" /\ right.type = "STRING"
    THEN CASE operator = "+" -> String(left.value \o right.value)
           [] operator = "<" -> make_boolean(StrLess(left.value, right.value))
           [] operator = ">" -> make_boolean(StrLess(right.value, left.value))
           [] OTHER -> EvaluationError("unknown operator")
    ELSE IF left.type = "BOOLEAN" /\ right.type = "BOOLEAN"
    THEN EvaluationError("unknown operator")
    ELSE EvaluationError("type mismatch")

eval_array_index_expression(array, index) ==
    IF index.value < 0 \/ index.value > Len(array.elements) - 1 THEN NULL
    ELSE array.elements[index.value + 1]

eval_index_expression(left, index) ==
    IF left.type = "ARRAY" /\ index.type = "INTEGER"
    THEN eval_array_index_expression(left, index)
    ELSE EvaluationError("index operator not supported")

RECURSIVE eval(_)
RECURSIVE eval_statements(_, _, _)
RECURSIVE eval_expressions(_, _)

\* the loop of eval_program (unwrap = TRUE) and of eval_block_statement (unwrap = FALSE)
eval_statements(statements, result, unwrap) ==
    IF statements = <<>> THEN result
    ELSE LET r == eval(Head(statements)) IN
         IF r.type = "EXCEPTION" THEN r
         ELSE IF r.type = "RETURN_VALUE" THEN (IF unwrap THEN r.value ELSE r)
         ELSE IF r.type = "EVALUATION_ERROR" THEN r
         ELSE eval_statements(Tail(statements), r, unwrap)

\* eval_expressions: the list of results, or the one error
eval_expressions(expressions, results) ==
    IF expressions = <<>> THEN results
    ELSE LET r == eval(Head(expressions)) IN
         IF r.type \in {"EVALUATION_ERROR", "EXCEPTION"} THEN <<r>>
         ELSE eval_expressions(Tail(expressions), Append(results, r))

eval_if_expression(condition, consequence, alternative) ==
    LET c == eval(condition) IN
    IF c.type = "EXCEPTION" THEN c
    ELSE IF is_truthy(c) THEN eval(consequence)
    ELSE IF alternative # NoNode THEN eval(alternative)
    ELSE NULL

eval_array_literal(expressions) ==
    LET elements == eval_expressions(expressions, <<>>) IN
    IF Len(elements) = 1 /\ elements[1].type \in {"EVALUATION_ERROR", "EXCEPTION"}
    THEN elements[1]
    ELSE Array(elements)

eval(node) ==
    CASE node.kind = "Program" -> eval_statements(node.statements, NULL, TRUE)
      [] node.kind = "ExpressionStatement" -> eval(node.expression)
      [] node.kind = "BlockStatement" -> eval_statements(node.statements, NULL, FALSE)
      [] node.kind = "ReturnStatement" ->
            LET r == eval(node.return_value) IN
            IF r.type = "EXCEPTION" THEN r ELSE ReturnValue(r)
      [] node.kind = "IfExpression" ->
            eval_if_expression(node.condition, node.consequence, node.alternative)
      [] node.kind = "IntegerLiteral" -> Integer(node.value)
      [] node.kind = "StringLiteral" -> String(node.value)
      [] node.kind = "BooleanLiteral" -> make_boolean(node.value)
      [] node.kind = "ArrayLiteral" -> eval_array_literal(node.elements)
      [] node.kind = "IndexExpression" ->
            LET left == eval(node.left)
                index == eval(node.index) IN
            IF left.type = "EXCEPTION" THEN left
            ELSE IF index.type = "EXCEPTION" THEN index
            ELSE eval_index_expression(left, index)
      [] node.kind = "PrefixExpression" ->
            LET right == eval(node.right) IN
            IF right.type \in {"EVALUATION_ERROR", "EXCEPTION"} THEN right
            ELSE eval_prefix_expression(node.operator, right)
      [] node.kind = "InfixExpression" ->
            LET left == eval(node.left) IN
            IF left.type \in {"EVALUATION_ERROR", "EXCEPTION"} THEN left
            ELSE LET right == eval(node.right) IN
                 IF right.type \in {"EVALUATION_ERROR", "EXCEPTION"} THEN right
                 ELSE eval_infix_expression(left, node.operator, right)
      [] OTHER -> NULL

(***************************************************************************)
(* The programs the pipeline is run on: the fixtures of test_compiler.py   *)
(* and test_vm.py and their failing variants, as the parser builds them    *)
(* (a function literal a let statement binds carries the bound name), and  *)
(* every prefix and infix expression over small literals.                  *)
(***************************************************************************)
Num(n) == IntegerLiteral(n)
Str(s) == StringLiteral(s)
Bool(b) == BooleanLiteral(b)
Id(name) == Identifier(name)
Stmt(e) == ExpressionStatement(e)
Block(statements) == BlockStatement(statements)
Call(f, arguments) == CallExpression(f, arguments)
Fn(parameters, statements) == FunctionLiteral(parameters, Block(statements), "")
Let(name, value) ==
    LetStatement(name, IF value.kind = "FunctionLiteral" THEN [value EXCEPT !.name = name]
                       ELSE value)

\* fn(x) { if (x == 0) { return 0; } else { countDown(x - 1); } }
countDown ==
    Fn(<<"x">>,
       <<Stmt(IfExpression(InfixExpression(Id("x"), "==", Num(0)),
                           Block(<<ReturnStatement(Num(0))>>),
                           Block(<<Stmt(Call(Id("countDown"),
                                             <<InfixExpression(Id("x"), "-", Num(1))>>))>>)))>>)

Programs == <<
    \* if (true) { 10 }; 3333;
    Program(<<Stmt(IfExpression(Bool(TRUE), Block(<<Stmt(Num(10))>>), NoNode)), Stmt(Num(3333))>>),
    \* if (false) { 10 }
    Program(<<Stmt(IfExpression(Bool(FALSE), Block(<<Stmt(Num(10))>>), NoNode))>>),
    \* if (1 < 2) { 10 } else { 20 }
    Program(<<Stmt(IfExpression(InfixExpression(Num(1), "<", Num(2)),
                                Block(<<Stmt(Num(10))>>), Block(<<Stmt(Num(20))>>)))>>),
    \* if (1 > 2) { 10 } else { 20 }
    Program(<<Stmt(IfExpression(InfixExpression(Num(1), ">", Num(2)),
                                Block(<<Stmt(Num(10))>>), Block(<<Stmt(Num(20))>>)))>>),
    \* if (true) { }
    Program(<<Stmt(IfExpression(Bool(TRUE), Block(<<>>), NoNode))>>),
    \* if (false) { 1 } else { }
    Program(<<Stmt(IfExpression(Bool(FALSE), Block(<<Stmt(Num(1))>>), Block(<<>>)))>>),
    \* if (true) { let a = 1; }
    Program(<<Stmt(IfExpression(Bool(TRUE), Block(<<Let("a", Num(1))>>), NoNode))>>),
    \* if (0) { 1 } else { 2 }
    Program(<<Stmt(IfExpression(Num(0), Block(<<Stmt(Num(1))>>), Block(<<Stmt(Num(2))>>)))>>),
    \* let one = 1; let two = one + one; one + two
    Program(<<Let("one", Num(1)), Let("two", InfixExpression(Id("one"), "+", Id("one"))),
              Stmt(InfixExpression(Id("one"), "+", Id("two")))>>),
    \* let newAdder = fn(a, b) { fn(c) { a - b + c } }; let adder = newAdder(1, 0); adder(8);
    Program(<<Let("newAdder",
                  Fn(<<"a", "b">>,
                     <<Stmt(Fn(<<"c">>,
                               <<Stmt(InfixExpression(InfixExpression(Id("a"), "-", Id("b")),
                                                      "+", Id("c")))>>))>>)),
              Let("adder", Call(Id("newAdder"), <<Num(1), Num(0)>>)),
              Stmt(Call(Id("adder"), <<Num(8)>>))>>),
    \* let countDown = fn(x) { ... }; countDown(1);
    Program(<<Let("countDown", countDown), Stmt(Call(Id("countDown"), <<Num(1)>>))>>),
    \* let wrapper = fn() { let countDown = fn(x) { ... }; countDown(1); }; wrapper();
    Program(<<Let("wrapper", Fn(<<>>, <<Let("countDown", countDown),
                                        Stmt(Call(Id("countDown"), <<Num(1)>>))>>)),
              Stmt(Call(Id("wrapper"), <<>>))>>),
    \* let f = fn() { fn() { f } }; f()();
    Program(<<Let("f", Fn(<<>>, <<Stmt(Fn(<<>>, <<Stmt(Id("f"))>>))>>)),
              Stmt(Call(Call(Id("f"), <<>>), <<>>))>>),
    \* fn() { }();
    Program(<<Stmt(Call(Fn(<<>>, <<>>), <<>>))>>),
    \* fn(a) { let b = a; b }(1);
    Program(<<Stmt(Call(Fn(<<"a">>, <<Let("b", Id("a")), Stmt(Id("b"))>>), <<Num(1)>>))>>),
    \* fn(a) { fn(b) { fn(c) { a + b + c } } }(1)(2)(3);
    Program(<<Stmt(Call(Call(Call(
        Fn(<<"a">>, <<Stmt(Fn(<<"b">>, <<Stmt(Fn(<<"c">>,
            <<Stmt(InfixExpression(InfixExpression(Id("a"), "+", Id("b")), "+", Id("c")))>>))>>))>>),
        <<Num(1)>>), <<Num(2)>>), <<Num(3)>>))>>),
    \* let a = [1, 2]; let h = {1: 2}; len(a) + h[1] + a[0];
    Program(<<Let("a", ArrayLiteral(<<Num(1), Num(2)>>)),
              Let("h", HashLiteral(<<<<Num(1), Num(2)>>>>)),
              Stmt(InfixExpression(InfixExpression(Call(Id("len"), <<Id("a")>>), "+",
                                                   IndexExpression(Id("h"), Num(1))),
                                   "+", IndexExpression(Id("a"), Num(0))))>>),
    \* first(rest(push([1], 2))); last([1]); puts("a");
    Program(<<Stmt(Call(Id("first"), <<Call(Id("rest"),
                  <<Call(Id("push"), <<ArrayLiteral(<<Num(1)>>), Num(2)>>)>>)>>)),
              Stmt(Call(Id("last"), <<ArrayLiteral(<<Num(1)>>)>>)),
              Stmt(Call(Id("puts"), <<Str(<<97>>)>>))>>),
    \* "a" + "b"; "a" < "b"; "b" > "a"; "a" == "a"; [1][1];
    Program(<<Stmt(InfixExpression(Str(<<97>>), "+", Str(<<98>>))),
              Stmt(InfixExpression(Str(<<97>>), "<", Str(<<98>>))),
              Stmt(InfixExpression(Str(<<98>>), ">", Str(<<97>>))),
              Stmt(InfixExpression(Str(<<97>>), "==", Str(<<97>>))),
              Stmt(IndexExpression(ArrayLiteral(<<Num(1)>>), Num(1)))>>),
    \* return 5;
    Program(<<ReturnStatement(Num(5))>>),
    \* fn(a) { a }();
    Program(<<Stmt(Call(Fn(<<"a">>, <<Stmt(Id("a"))>>), <<>>))>>),
    \* 1();
    Program(<<Stmt(Call(Num(1), <<>>))>>),
    \* 1 < "a";
    Program(<<Stmt(InfixExpression(Num(1), "<", Str(<<97>>)))>>),
    \* undefinedName;
    Program(<<Stmt(Id("undefinedName"))>>),
    \* 1[0];
    Program(<<Stmt(IndexExpression(Num(1), Num(0)))>>),
    \* {[1]: 2};
    Program(<<Stmt(HashLiteral(<<<<ArrayLiteral(<<Num(1)>>), Num(2)>>>>))>>),
    \* len(1);
    Program(<<Stmt(Call(Id("len"), <<Num(1)>>))>>),
    \* len();
    Program(<<Stmt(Call(Id("len"), <<>>))>>),
    \* let mk = fn(a) { let g = fn(x) { if (x == 0) { a } else { g(x - 1) } }; g(1) }; mk(5);
    Program(<<Let("mk", Fn(<<"a">>,
                  <<Let("g", Fn(<<"x">>,
                        <<Stmt(IfExpression(InfixExpression(Id("x"), "==", Num(0)),
                                            Block(<<Stmt(Id("a"))>>),
                                            Block(<<Stmt(Call(Id("g"),
                                                <<InfixExpression(Id("x"), "-", Num(1))>>))>>)))>>)),
                    Stmt(Call(Id("g"), <<Num(1)>>))>>)),
              Stmt(Call(Id("mk"), <<Num(5)>>))>>),
    \* fn() { let a = 1; }();
    Program(<<Stmt(Call(Fn(<<>>, <<Let("a", Num(1))>>), <<>>))>>),
    \* let a = 1; fn(x) { x; a }(0);
    Program(<<Let("a", Num(1)),
              Stmt(Call(Fn(<<"x">>, <<Stmt(Id("x")), Stmt(Id("a"))>>), <<Num(0)>>))>>),
    \* len([]); push([], 3);
    Program(<<Stmt(Call(Id("len"), <<ArrayLiteral(<<>>)>>)),
              Stmt(Call(Id("push"), <<ArrayLiteral(<<>>), Num(3)>>))>>),
    \* fn() { len([]) }
    Program(<<Stmt(Fn(<<>>, <<Stmt(Call(Id("len"), <<ArrayLiteral(<<>>)>>))>>))>>),
    \* fn() { fn() { rest } }()();
    Program(<<Stmt(Call(Call(Fn(<<>>, <<Stmt(Fn(<<>>, <<Stmt(Id("rest"))>>))>>), <<>>), <<>>))>>),
    \* !""; if (0) { 1 } else { 2 };
    Program(<<Stmt(PrefixExpression("!", Str(<<>>))),
              Stmt(IfExpression(Num(0), Block(<<Stmt(Num(1))>>), Block(<<Stmt(Num(2))>>)))>>),
    \* [1][-1]; {1: 1}[0]; {"a": 2}["a"]; {1: 2}[true];
    Program(<<Stmt(IndexExpression(ArrayLiteral(<<Num(1)>>), PrefixExpression("-", Num(1)))),
              Stmt(IndexExpression(HashLiteral(<<<<Num(1), Num(1)>>>>), Num(0))),
              Stmt(IndexExpression(HashLiteral(<<<<Str(<<97>>), Num(2)>>>>), Str(<<97>>))),
              Stmt(IndexExpression(HashLiteral(<<<<Num(1), Num(2)>>>>), Bool(TRUE)))>>),
    \* [1]["a"];
    Program(<<Stmt(IndexExpression(ArrayLiteral(<<Num(1)>>), Str(<<97>>)))>>),
    \* {1: 2}[[1]];
    Program(<<Stmt(IndexExpression(HashLiteral(<<<<Num(1), Num(2)>>>>),
                                   ArrayLiteral(<<Num(1)>>)))>>),
    \* [1, 2]; fn() { let a = a; a }();
    Program(<<Stmt(ArrayLiteral(<<Num(1), Num(2)>>)),
              Stmt(Call(Fn(<<>>, <<Let("a", Id("a")), Stmt(Id("a"))>>), <<>>))>>),
    \* {1: 2, 0 + 1: 3}[1]; {1: 2, true: 3};
    Program(<<Stmt(IndexExpression(
                  HashLiteral(<<<<Num(1), Num(2)>>,
                                <<InfixExpression(Num(0), "+", Num(1)), Num(3)>>>>), Num(1))),
              Stmt(HashLiteral(<<<<Num(1), Num(2)>>, <<Bool(TRUE), Num(3)>>>>))>>)
>>

\* The literals, by number: the integers 0..MaxInt, then true and false
Atom(i) == IF i <= MaxInt THEN Num(i) ELSE Bool(i = MaxInt + 1)
AtomNumbers == 0..(MaxInt + 2)
PrefixOperators == {"!", "-"}
InfixOperators == {"+", "-", "*", "/", "<", ">", "==", "!="}
Shapes == {"a", "-a", "a+b", "--a", "-(a+b)"}

\* The expression of a shape: p and q are its prefix operators, o its infix operator
Expression(shape, p, q, o, a, b) ==
    CASE shape = "a" -> Atom(a)
      [] shape = "-a" -> PrefixExpression(p, Atom(a))
      [] shape = "a+b" -> InfixExpression(Atom(a), o, Atom(b))
      [] shape = "--a" -> PrefixExpression(p, PrefixExpression(q, Atom(a)))
      [] OTHER -> PrefixExpression(p, InfixExpression(Atom(a), o, Atom(b)))

\* program is one of the fixtures or the statement of one generated expression
IsInput(node) ==
    \/ \E i \in 1..Len(Programs) : node = Programs[i]
    \/ \E shape \in Shapes, p \in PrefixOperators, q \in PrefixOperators,
          o \in InfixOperators, a \in AtomNumbers, b \in AtomNumbers :
          node = Program(<<Stmt(Expression(shape, p, q, o, a, b))>>)

(***************************************************************************)
(* The pipeline as a state machine: Compiler().compile(program), then      *)
(* VirtualMachine(bytecode), then run(), one action per case of its match. *)
(***************************************************************************)
NoOp == [name |-> "none"]

\* VirtualMachineState(): the globals, all NULL
VirtualMachineState == [globals |-> <<>>]

\* the states of a pipeline that repl.start does not drive
NoRepl ==
    /\ compiler_state = CompilerState
    /\ virtual_machine_state = VirtualMachineState
    /\ lines = <<>>

Init ==
    /\ pc = "start"
    /\ IsInput(program)
    /\ bytecode = [instructions |-> <<>>, constants |-> <<>>]
    /\ compile_log = <<>>
    /\ constants = <<>>
    /\ stack = <<>>
    /\ sp = 0
    /\ frames = <<>>
    /\ globals = <<>>
    /\ last = NoObject
    /\ error = ""
    /\ call_log = <<>>
    /\ tables = <<>>
    /\ op = NoOp
    /\ captured = <<>>
    /\ NoRepl

\* compiler = Compiler(); compiler.compile(program); compiler.bytecode()
Compile ==
    /\ pc = "start"
    /\ LET c == compile(Compiler(CompilerState), program) IN
       IF c.error = ""
       THEN /\ pc' = "compiled"
            /\ bytecode' = Bytecode(c)
            /\ compile_log' = c.log
            /\ error' = ""
       ELSE /\ pc' = "compile_error"
            /\ error' = c.error
            /\ UNCHANGED <<bytecode, compile_log>>
    /\ UNCHANGED <<program, constants, stack, sp, frames, globals, last, call_log, sym_vars, repl_vars>>

\* the machine's fields as the record the operators work on
vm_state ==
    [constants |-> constants, stack |-> stack, sp |-> sp, frames |-> frames,
     globals |-> globals, last |-> last, error |-> error]

\* history: a frame pushed records sp and num_args of its CALL and the local slots written
\* so far in its activation, which at the CALL are those of the arguments; a frame popped
\* forgets them
log_call(r, num_args) ==
    IF Len(r.frames) > Len(frames)
    THEN Append(call_log, [sp |-> sp, num_args |-> num_args, written |-> 0..(num_args - 1)])
    ELSE IF Len(r.frames) < Len(frames) THEN Front(call_log)
    ELSE call_log

\* history: a SET_LOCAL that stored its value has written the slot of the current activation
log_set_local(r, local_index) ==
    IF r.error = "" /\ call_log # <<>>
    THEN [call_log EXCEPT ![Len(call_log)].written = @ \cup {local_index}]
    ELSE call_log

\* the machine's fields become those of r; an exception ends run()
Commit(r) ==
    /\ constants' = r.constants
    /\ stack' = r.stack
    /\ sp' = r.sp
    /\ frames' = r.frames
    /\ globals' = r.globals
    /\ last' = r.last
    /\ error' = r.error
    /\ pc' = IF r.error # "" THEN "error" ELSE "running"
    /\ UNCHANGED <<program, bytecode, compile_log, sym_vars, repl_vars>>

\* vm = VirtualMachine(bytecode)
NewVirtualMachine ==
    /\ pc = "compiled"
    /\ Commit(VirtualMachine(bytecode, <<>>))
    /\ call_log' = <<>>

\* the condition of run()'s while loop
Running ==
    /\ pc = "running"
    /\ frames # <<>>
    /\ Last(frames).ip < Len(Last(frames).cl.fn.instructions) - 1

\* self.current_frame().ip += 1, and the opcode at the new ip
Fetched == set_ip(vm_state, Last(frames).ip + 1)
NextOpcode == Last(frames).cl.fn.instructions[Last(frames).ip + 2]

Step(r) == \E v \in {r} : Commit(v) /\ call_log' = log_call(v, 0)

RunConstant == Running /\ NextOpcode = Opcode.CONSTANT_ /\ Step(execute_constant(Fetched))

RunPop == Running /\ NextOpcode = Opcode.POP /\ Step(pop_stack(Fetched))

RunBinaryOperation ==
    /\ Running
    /\ NextOpcode \in {Opcode.ADD, Opcode.SUBTRACT, Opcode.MULTIPLY, Opcode.DIVIDE}
    /\ Step(execute_binary_operation(Fetched, NextOpcode))

RunComparison ==
    /\ Running
    /\ NextOpcode \in {Opcode.EQUAL, Opcode.NOT_EQUAL, Opcode.LESS_THAN, Opcode.GREATER_THAN}
    /\ Step(execute_comparison(Fetched, NextOpcode))

RunMinus == Running /\ NextOpcode = Opcode.MINUS /\ Step(execute_minus(Fetched))

RunBang == Running /\ NextOpcode = Opcode.BANG /\ Step(execute_bang(Fetched))

RunTrue == Running /\ NextOpcode = Opcode.TRUE /\ Step(push_stack(Fetched, TRUE_))

RunFalse == Running /\ NextOpcode = Opcode.FALSE /\ Step(push_stack(Fetched, FALSE_))

RunJump == Running /\ NextOpcode = Opcode.JUMP /\ Step(execute_jump(Fetched))

RunJumpNotTruthy ==
    Running /\ NextOpcode = Opcode.JUMP_NOT_TRUTHY /\ Step(execute_jump_not_truthy(Fetched))

RunNull == Running /\ NextOpcode = Opcode.NULL /\ Step(push_stack(Fetched, NULL))

RunSetGlobal == Running /\ NextOpcode = Opcode.SET_GLOBAL /\ Step(execute_set_global(Fetched))

RunGetGlobal == Running /\ NextOpcode = Opcode.GET_GLOBAL /\ Step(execute_get_global(Fetched))

RunSetLocal ==
    /\ Running
    /\ NextOpcode = Opcode.SET_LOCAL
    /\ \E v \in {execute_set_local(Fetched)} :
          Commit(v) /\ call_log' = log_set_local(v, operand_ubyte(Fetched))

RunGetLocal == Running /\ NextOpcode = Opcode.GET_LOCAL /\ Step(execute_get_local(Fetched))

RunGetBuiltin == Running /\ NextOpcode = Opcode.GET_BUILTIN /\ Step(execute_get_builtin(Fetched))

RunGetFree == Running /\ NextOpcode = Opcode.GET_FREE /\ Step(execute_get_free(Fetched))

RunArray == Running /\ NextOpcode = Opcode.ARRAY /\ Step(execute_array(Fetched))

RunHash == Running /\ NextOpcode = Opcode.HASH /\ Step(execute_hash(Fetched))

RunIndex == Running /\ NextOpcode = Opcode.INDEX /\ Step(execute_index_expression(Fetched))

RunCall ==
    /\ Running
    /\ NextOpcode = Opcode.CALL
    /\ \E v \in {execute_call(Fetched)} :
          Commit(v) /\ call_log' = log_call(v, operand_ubyte(Fetched))

RunClosure == Running /\ NextOpcode = Opcode.CLOSURE /\ Step(execute_closure(Fetched))

RunCurrentClosure ==
    Running /\ NextOpcode = Opcode.CURRENT_CLOSURE /\ Step(execute_current_closure(Fetched))

RunReturnValue ==
    Running /\ NextOpcode = Opcode.RETURN_VALUE /\ Step(execute_return_value(Fetched))

RunReturn == Running /\ NextOpcode = Opcode.RETURN /\ Step(execute_return(Fetched))

\* the while condition is false: run() returns
Halt ==
    /\ pc = "running"
    /\ frames # <<>>
    /\ ~(Last(frames).ip < Len(Last(frames).cl.fn.instructions) - 1)
    /\ pc' = "done"
    /\ UNCHANGED <<program, bytecode, compile_log, vm_vars, sym_vars, repl_vars>>

\* the while condition asks for the current frame after a return popped the main one
NoFrame ==
    /\ pc = "running"
    /\ frames = <<>>
    /\ pc' = "error"
    /\ error' = "AssertionError"
    /\ UNCHANGED <<program, bytecode, compile_log, constants, stack, sp, frames, globals,
                   last, call_log, sym_vars, repl_vars>>

\* run(): one turn of the while loop, or its end
Run ==
    \/ RunConstant
    \/ RunPop
    \/ RunBinaryOperation
    \/ RunComparison
    \/ RunMinus
    \/ RunBang
    \/ RunTrue
    \/ RunFalse
    \/ RunJump
    \/ RunJumpNotTruthy
    \/ RunNull
    \/ RunSetGlobal
    \/ RunGetGlobal
    \/ RunSetLocal
    \/ RunGetLocal
    \/ RunGetBuiltin
    \/ RunGetFree
    \/ RunArray
    \/ RunHash
    \/ RunIndex
    \/ RunCall
    \/ RunClosure
    \/ RunCurrentClosure
    \/ RunReturnValue
    \/ RunReturn
    \/ Halt
    \/ NoFrame

Next == Compile \/ NewVirtualMachine \/ Run

Spec == Init /\ [][Next]_vars

\* The programs that compile, compiled: the state run() starts from.
InitCompiled ==
    /\ pc = "compiled"
    /\ IsInput(program)
    /\ compile(Compiler(CompilerState), program).error = ""
    /\ bytecode = Bytecode(compile(Compiler(CompilerState), program))
    /\ compile_log = compile(Compiler(CompilerState), program).log
    /\ constants = <<>>
    /\ stack = <<>>
    /\ sp = 0
    /\ frames = <<>>
    /\ globals = <<>>
    /\ last = NoObject
    /\ error = ""
    /\ call_log = <<>>
    /\ tables = <<>>
    /\ op = NoOp
    /\ captured = <<>>
    /\ NoRepl

NextRun == NewVirtualMachine \/ Run

\* run() is one thread that takes its next step whenever there is one
SpecRun == InitCompiled /\ [][NextRun]_vars /\ WF_vars(NextRun)

\* let f = fn() { f() }; f();   a recursion that never returns
unboundedRecursion ==
    Program(<<Let("f", Fn(<<>>, <<Stmt(Call(Id("f"), <<>>))>>)), Stmt(Call(Id("f"), <<>>))>>)

\* the compiled programs of SpecRun and the compiled unbounded recursion, which runs
\* until the operand stack is full
InitDeep ==
    /\ pc = "compiled"
    /\ IsInput(program) \/ program = unboundedRecursion
    /\ compile(Compiler(CompilerState), program).error = ""
    /\ bytecode = Bytecode(compile(Compiler(CompilerState), program))
    /\ compile_log = compile(Compiler(CompilerState), program).log
    /\ constants = <<>>
    /\ stack = <<>>
    /\ sp = 0
    /\ frames = <<>>
    /\ globals = <<>>
    /\ last = NoObject
    /\ error = ""
    /\ call_log = <<>>
    /\ tables = <<>>
    /\ op = NoOp
    /\ captured = <<>>
    /\ NoRepl

SpecDeep == InitDeep /\ [][NextRun]_vars

\* let f = fn() { f(); let a = 1; let b = 2; }; f();   a recursion that never returns,
\* with two locals reserved at every CALL
recursionWithLocals ==
    Program(<<Let("f", Fn(<<>>, <<Stmt(Call(Id("f"), <<>>)), Let("a", Num(1)),
                                  Let("b", Num(2))>>)),
              Stmt(Call(Id("f"), <<>>))>>)

\* the compiled programs of SpecRun and the compiled recursion with locals, which runs
\* until a CALL has reserved slots past the end of the operand stack
InitLocals ==
    /\ pc = "compiled"
    /\ IsInput(program) \/ program = recursionWithLocals
    /\ compile(Compiler(CompilerState), program).error = ""
    /\ bytecode = Bytecode(compile(Compiler(CompilerState), program))
    /\ compile_log = compile(Compiler(CompilerState), program).log
    /\ constants = <<>>
    /\ stack = <<>>
    /\ sp = 0
    /\ frames = <<>>
    /\ globals = <<>>
    /\ last = NoObject
    /\ error = ""
    /\ call_log = <<>>
    /\ tables = <<>>
    /\ op = NoOp
    /\ captured = <<>>
    /\ NoRepl

SpecLocals == InitLocals /\ [][NextRun]_vars

(***************************************************************************)
(* repl.start: one CompilerState and one VirtualMachineState, and for each *)
(* line a Compiler and a VirtualMachine made from them.                    *)
(***************************************************************************)
\* the lines start() runs before the model stops reading
MaxLines == 2

\* what is typed at the prompt
ReplLines == <<
    \* let a = 1; let f = fn(x) { let y = x; fn() { y + a + 2 } };
    Program(<<Let("a", Num(1)),
              Let("f", Fn(<<"x">>,
                          <<Let("y", Id("x")),
                            Stmt(Fn(<<>>, <<Stmt(InfixExpression(
                                InfixExpression(Id("y"), "+", Id("a")), "+", Num(2)))>>))>>))>>),
    \* 3; f(a)();
    Program(<<Stmt(Num(3)), Stmt(Call(Call(Id("f"), <<Id("a")>>), <<>>))>>),
    \* a;
    Program(<<Stmt(Id("a"))>>),
    \* let b = 5; b;
    Program(<<Let("b", Num(5)), Stmt(Id("b"))>>),
    \* let a = 2;
    Program(<<Let("a", Num(2))>>),
    \* let len = 5; len;
    Program(<<Let("len", Num(5)), Stmt(Id("len"))>>),
    \* len;
    Program(<<Stmt(Id("len"))>>),
    \* let c = 7; undefinedName;
    Program(<<Let("c", Num(7)), Stmt(Id("undefinedName"))>>),
    \* c;
    Program(<<Stmt(Id("c"))>>),
    \* return 1;
    Program(<<ReturnStatement(Num(1))>>),
    \* [if (true) { 1 }][0]; {1: len("x")}; if (false) { 1 }; !(-1 < 0);
    \* let g = fn(n) { if (n == 0) { 0 } else { g(n - 1) } }; g(1); fn() { }();
    Program(<<Stmt(IndexExpression(ArrayLiteral(<<IfExpression(Bool(TRUE),
                                                   Block(<<Stmt(Num(1))>>), NoNode)>>), Num(0))),
              Stmt(HashLiteral(<<<<Num(1), Call(Id("len"), <<Str(<<120>>)>>)>>>>)),
              Stmt(IfExpression(Bool(FALSE), Block(<<Stmt(Num(1))>>), NoNode)),
              Stmt(PrefixExpression("!", InfixExpression(PrefixExpression("-", Num(1)),
                                                         "<", Num(0)))),
              Let("g", Fn(<<"n">>,
                          <<Stmt(IfExpression(InfixExpression(Id("n"), "==", Num(0)),
                                              Block(<<Stmt(Num(0))>>),
                                              Block(<<Stmt(Call(Id("g"),
                                                  <<InfixExpression(Id("n"), "-", Num(1))>>))>>)))>>)),
              Stmt(Call(Id("g"), <<Num(1)>>)),
              Stmt(Call(Fn(<<>>, <<>>), <<>>))>>)
>>

\* compiler_state = CompilerState(); virtual_machine_state = VirtualMachineState()
InitRepl ==
    /\ pc = "prompt"
    /\ program = NoNode
    /\ bytecode = [instructions |-> <<>>, constants |-> <<>>]
    /\ compile_log = <<>>
    /\ constants = <<>>
    /\ stack = <<>>
    /\ sp = 0
    /\ frames = <<>>
    /\ globals = <<>>
    /\ last = NoObject
    /\ error = ""
    /\ call_log = <<>>
    /\ tables = <<>>
    /\ op = NoOp
    /\ captured = <<>>
    /\ compiler_state = CompilerState
    /\ virtual_machine_state = VirtualMachineState
    /\ lines = <<>>

\* the CompilerState after a compile: the global table and the constants list are the
\* objects the Compiler wrote to, whether or not the compile raised
state_of(c) == [symbol_table |-> c.tables[1], constants |-> c.constants]

\* program = Parser(Lexer(s)).parse_program(); compiler = Compiler(compiler_state);
\* compiler.compile(program); compiler.bytecode(). An exception ends start().
ReplCompile ==
    /\ pc = "prompt"
    /\ Len(lines) < MaxLines
    /\ \E i \in 1..Len(ReplLines) :
          /\ program' = ReplLines[i]
          /\ lines' = Append(lines, i)
          /\ \E c \in {compile(Compiler(compiler_state), ReplLines[i])} :
                /\ compiler_state' = state_of(c)
                /\ compile_log' = c.log
                /\ error' = c.error
                /\ IF c.error = ""
                   THEN pc' = "compiled" /\ bytecode' = Bytecode(c)
                   ELSE pc' = "compile_error" /\ UNCHANGED bytecode
    /\ UNCHANGED <<constants, stack, sp, frames, globals, last, call_log, sym_vars,
                   virtual_machine_state>>

\* virtual_machine = VirtualMachine(compiler.bytecode(), virtual_machine_state)
ReplNewVirtualMachine ==
    /\ pc = "compiled"
    /\ Commit(VirtualMachine(bytecode, virtual_machine_state.globals))
    /\ call_log' = <<>>

\* run() has returned: the result is printed and start() reads the next line. The
\* machine wrote its globals to the list of virtual_machine_state.
ReplPrint ==
    /\ pc = "done"
    /\ pc' = "prompt"
    /\ virtual_machine_state' = [globals |-> globals]
    /\ UNCHANGED <<program, bytecode, compile_log, vm_vars, sym_vars, compiler_state, lines>>

NextRepl == ReplCompile \/ ReplNewVirtualMachine \/ Run \/ ReplPrint

SpecRepl == InitRepl /\ [][NextRepl]_vars

(***************************************************************************)
(* make and the machine's read_ushort and read_ubyte, on their own: an     *)
(* opcode and a list of operands go through make, and the operands of the  *)
(* instruction are read back as run() reads them, one read per operand.    *)
(***************************************************************************)
\* the longest list of operands given to make
MaxOperands == 3

\* the operands given to make: the ends of the two ranges and their neighbours
OperandValues == {0 - 1, 0, 255, 256, 65535, 65536}

\* the opcodes given to make: those of Opcode and one without a definition
MakeOpcodes == OpcodeValues \cup {255}

OperandLists == UNION {[1..n -> OperandValues] : n \in 0..MaxOperands}

InitMake ==
    /\ pc = "make"
    /\ program = NoNode
    /\ bytecode = [instructions |-> <<>>, constants |-> <<>>]
    /\ compile_log = <<>>
    /\ constants = <<>>
    /\ stack = <<>>
    /\ sp = 0
    /\ frames = <<>>
    /\ globals = <<>>
    /\ last = NoObject
    /\ error = ""
    /\ call_log = <<>>
    /\ tables = <<>>
    /\ \E opcode \in MakeOpcodes, operands \in OperandLists :
          op = [name |-> "input", opcode |-> opcode, operands |-> operands,
                error |-> "", bytes |-> <<>>, values |-> <<>>]
    /\ captured = <<>>
    /\ NoRepl

\* instructions = make(opcode, operands); a machine is made for them and run() has
\* fetched the opcode
Make ==
    /\ pc = "make"
    /\ \E r \in {make(op.opcode, op.operands)} :
          /\ op' = [op EXCEPT !.name = "make", !.error = r.error, !.bytes = r.bytes]
          /\ IF r.error = ""
             THEN /\ pc' = "made"
                  /\ frames' = set_ip(VirtualMachine([instructions |-> r.bytes,
                                                      constants |-> <<>>], <<>>), 0).frames
             ELSE /\ pc' = "raised"
                  /\ UNCHANGED frames
    /\ UNCHANGED <<program, bytecode, compile_log, constants, stack, sp, globals, last,
                   error, call_log, tables, captured, repl_vars>>

\* the width of the operand that is read next, 0 when all are read
NextWidth ==
    IF Len(op.values) < Len(operand_widths(op.opcode))
    THEN operand_widths(op.opcode)[Len(op.values) + 1] ELSE 0

\* the machine's fields become those of r, and the value read is kept
Read(value, r) ==
    /\ op' = [op EXCEPT !.values = Append(@, value)]
    /\ frames' = r.frames
    /\ error' = r.error
    /\ pc' = IF r.error # "" THEN "raised" ELSE "made"
    /\ UNCHANGED <<program, bytecode, compile_log, constants, stack, sp, globals, last,
                   call_log, tables, captured, repl_vars>>

\* value = self.read_ushort()
ReadUshort == pc = "made" /\ NextWidth = 2 /\ Read(operand_ushort(vm_state), read_ushort(vm_state))

\* value = self.read_ubyte()
ReadUbyte == pc = "made" /\ NextWidth = 1 /\ Read(operand_ubyte(vm_state), read_ubyte(vm_state))

NextMake == Make \/ ReadUshort \/ ReadUbyte

SpecMake == InitMake /\ [][NextMake]_vars

(***************************************************************************)
(* The symbol table on its own: a chain of tables, each the inner scope of *)
(* the one before, and any sequence of define, define_builtin,             *)
(* define_function_name and resolve calls on any table of the chain.       *)
(***************************************************************************)
Names == {"a", "b"}
Chain == <<"global", "outer", "middle", "inner">>

\* global = SymbolTable(); outer = SymbolTable(global); ... : the chain before any call
InitSym ==
    /\ pc = "symtab"
    /\ program = NoNode
    /\ bytecode = [instructions |-> <<>>, constants |-> <<>>]
    /\ compile_log = <<>>
    /\ constants = <<>>
    /\ stack = <<>>
    /\ sp = 0
    /\ frames = <<>>
    /\ globals = <<>>
    /\ last = NoObject
    /\ error = ""
    /\ call_log = <<>>
    /\ tables = [k \in 1..Len(Chain) |-> SymbolTable]
    /\ op = [name |-> "SymbolTable", calls |-> 0]
    /\ captured = [k \in 1..Len(Chain) |-> <<>>]
    /\ NoRepl

\* the call's effect on the chain, and what it returned
Called(name, k, argument, r) ==
    /\ tables' = r.tables
    /\ op' = [name |-> name, calls |-> op.calls + 1, k |-> k, argument |-> argument,
              symbol |-> r.symbol, error |-> r.error]
    /\ UNCHANGED <<pc, program, bytecode, compile_log, vm_vars, repl_vars>>

Define(max) ==
    /\ pc = "symtab"
    /\ op.calls < max
    /\ \E k \in 1..Len(tables), name \in Names :
          Called("define", k, name, define(tables, k, name))
    /\ UNCHANGED captured

DefineBuiltin(max) ==
    /\ pc = "symtab"
    /\ op.calls < max
    /\ \E k \in 1..Len(tables), name \in Names :
          Called("define_builtin", k, name, define_builtin(tables, k, 0, name))
    /\ UNCHANGED captured

DefineFunctionName(max) ==
    /\ pc = "symtab"
    /\ op.calls < max
    /\ \E k \in 1..Len(tables), name \in Names :
          Called("define_function_name", k, name, define_function_name(tables, k, name))
    /\ UNCHANGED captured

\* the innermost table at or outside table k that binds name, 0 when none does
RECURSIVE binder(_, _, _)
binder(ts, k, name) ==
    IF k = 0 THEN 0
    ELSE IF name \in DOMAIN ts[k].store THEN k
    ELSE binder(ts, k - 1, name)

\* history: resolve(name) on table k passes through every table between the binder and k;
\* each of them captures what its outer table resolved name to, unless that is a
\* global or a built-in
capture_from(b, k, name) ==
    [j \in 1..Len(tables) |->
        IF b >= 1 /\ b < j /\ j <= k /\ tables[b].store[name].scope \notin {"GLOBAL", "BUILTIN"}
        THEN Append(captured[j],
                    IF j - 1 = b THEN tables[b].store[name]
                    ELSE Symbol(name, "FREE", Len(captured[j - 1])))
        ELSE captured[j]]

capture(k, name) == capture_from(binder(tables, k, name), k, name)

Resolve(max) ==
    /\ pc = "symtab"
    /\ op.calls < max
    /\ \E k \in 1..Len(tables), name \in Names :
          /\ Called("resolve", k, name, resolve(tables, k, name))
          /\ captured' = capture(k, name)

NextSym ==
    \/ Define(MaxCalls)
    \/ DefineBuiltin(MaxCalls)
    \/ DefineFunctionName(MaxCalls)
    \/ Resolve(MaxCalls)

SpecSym == InitSym /\ [][NextSym]_vars

\* define and resolve calls only
NextDefineResolve ==
    \/ Define(MaxDefineResolveCalls)
    \/ Resolve(MaxDefineResolveCalls)

SpecDefineResolve == InitSym /\ [][NextDefineResolve]_vars

(***************************************************************************)
(* What the claims read off a state of the running machine.                *)
(***************************************************************************)
CurrentInstructions == Last(frames).cl.fn.instructions

\* the operand byte of the CALL about to execute
NumArgs == CurrentInstructions[Last(frames).ip + 3]

\* self.stack[self.sp - 1 - num_args] of the CALL about to execute
Callee == list_get(stack, DEFAULT_STACK_SIZE, sp - 1 - NumArgs)

AtCallOfClosure ==
    /\ Running
    /\ NextOpcode = Opcode.CALL
    /\ sp - 1 - NumArgs >= 0
    /\ Callee.type = "CLOSURE"
    /\ Callee.fn.num_parameters = NumArgs

\* C1: a CALL num_args whose callee is a closure of num_args parameters pushes exactly
\* one frame (the frames below stay, the caller's ip past the operand), the new frame's
\* bp is the sp before the call minus num_args and its ip is -1, and afterwards sp is
\* that bp plus the function's num_locals.
C1_CallPushesOneFrame ==
    [][AtCallOfClosure =>
          /\ pc' = "running"
          /\ Len(frames') = Len(frames) + 1
          /\ \A i \in 1..(Len(frames) - 1) : frames'[i] = frames[i]
          /\ frames'[Len(frames)] = [Last(frames) EXCEPT !.ip = @ + 2]
          /\ Last(frames').bp = sp - NumArgs
          /\ Last(frames').ip = 0 - 1
          /\ Last(frames').cl = Callee
          /\ sp' = Last(frames').bp + Callee.fn.num_locals]_vars

\* a frame just entered whose function has locals besides its parameters
C1_Witness ==
    /\ pc = "running"
    /\ Len(frames) = 2
    /\ Last(frames).ip = 0 - 1
    /\ Last(frames).cl.fn.num_parameters = 1
    /\ Last(frames).cl.fn.num_locals = 2
    /\ Last(frames).bp = Last(call_log).sp - Last(call_log).num_args
    /\ sp = Last(frames).bp + 2

AtReturn ==
    /\ Running
    /\ NextOpcode \in {Opcode.RETURN_VALUE, Opcode.RETURN}
    /\ Len(frames) >= 2

\* C2: RETURN_VALUE or RETURN in a frame a CALL num_args entered pops exactly that
\* frame, leaves sp at the sp just before that CALL minus num_args, and leaves the
\* returned value (the popped top of the stack, NULL for RETURN) in the slot that held
\* the callee.
C2_ReturnRestoresStack ==
    [][AtReturn =>
          /\ pc' = "running"
          /\ frames' = Front(frames)
          /\ sp' = Last(call_log).sp - Last(call_log).num_args
          /\ ObjEq(list_get(stack', DEFAULT_STACK_SIZE,
                            Last(call_log).sp - Last(call_log).num_args - 1),
                   IF NextOpcode = Opcode.RETURN_VALUE
                   THEN list_get(stack, DEFAULT_STACK_SIZE, sp - 1) ELSE NULL)]_vars

\* back in the main frame just after its CALL of a one-parameter function, the integer
\* it returned on top of the stack
C2_Witness ==
    /\ pc = "running"
    /\ Len(frames) = 1
    /\ frames[1].ip >= 1
    /\ frames[1].cl.fn.instructions[frames[1].ip] = Opcode.CALL
    /\ \E i \in 1..Len(constants) :
          constants[i].type = "COMPILED_FUNCTION" /\ constants[i].num_parameters >= 1
    /\ sp >= 1
    /\ stack[sp].type = "INTEGER"
    /\ last = stack[sp]

\* C3: when run() ends without an exception on a program the evaluator gives a value
\* for, the machine's last popped object is that value.
C3_MachineAgreesWithEvaluator ==
    (/\ pc = "done"
     /\ evaluable(program)
     /\ eval(program).type \notin {"EVALUATION_ERROR", "EXCEPTION"})
        => ObjEq(last, eval(program))

Terminated == pc \in {"done", "error"}

\* C4: run() on the bytecode of a program that compiled ends: the loop runs off the end
\* of the main frame's instructions or an exception stops it.
C4_RunTerminates == <>Terminated

\* run() has ended on a program that calls a function recursively
C4_Witness ==
    /\ pc = "done"
    /\ \E i \in 1..Len(constants) :
          /\ constants[i].type = "COMPILED_FUNCTION"
          /\ \E n \in 1..Len(constants[i].instructions) :
                constants[i].instructions[n] = Opcode.CURRENT_CLOSURE
    /\ ObjEq(last, Integer(0))

IsIfProgram ==
    /\ program.kind = "Program"
    /\ Len(program.statements) = 1
    /\ program.statements[1].kind = "ExpressionStatement"
    /\ program.statements[1].expression.kind = "IfExpression"

\* C10: a program that is one if expression has, when its code has run and only the
\* statement's POP is left, exactly one value on the stack.
C10_IfLeavesOneValue ==
    (/\ pc = "running"
     /\ IsIfProgram
     /\ Len(frames) = 1
     /\ frames[1].ip = Len(frames[1].cl.fn.instructions) - 2)
        => sp = 1

(***************************************************************************)
(* What the claims read off a call on the symbol table chain.              *)
(***************************************************************************)
\* this step is resolve(name) on table k of the chain
ResolveStep(k, name) ==
    /\ op'.name = "resolve"
    /\ op'.calls = op.calls + 1
    /\ op'.k = k
    /\ op'.argument = name

\* table k does not bind name and its immediate outer table, not the global one, binds it
\* by a define
DefinedInOuter(k, name) ==
    /\ k >= 3
    /\ name \notin DOMAIN tables[k].store
    /\ name \in DOMAIN tables[k - 1].store
    /\ tables[k - 1].store[name].scope = "LOCAL"

\* table k does not bind name, and the nearest table outside it that does is not the
\* global one and binds it by a define or by a capture
BoundOutside(k, name) ==
    /\ k >= 3
    /\ name \notin DOMAIN tables[k].store
    /\ binder(tables, k - 1, name) >= 2
    /\ tables[binder(tables, k - 1, name)].store[name].scope \in {"LOCAL", "FREE"}

\* C5 as stated: resolve of a name the immediate outer table defines returns a Free
\* symbol, and the OUTER table's free_symbols holds the definition at the returned index.
C5_OuterTableHoldsOriginal ==
    [][\A k \in 1..Len(tables), name \in Names :
          (ResolveStep(k, name) /\ DefinedInOuter(k, name)) =>
              /\ op'.symbol.scope = "FREE"
              /\ op'.symbol.index < Len(tables'[k - 1].free_symbols)
              /\ tables'[k - 1].free_symbols[op'.symbol.index + 1]
                     = tables[k - 1].store[name]]_vars

\* C5, amended: resolve of a name that the resolving table does not bind and that a
\* non-global table outside it defines or has captured returns a Free symbol, and the
\* RESOLVING table's free_symbols holds at the returned index the symbol its immediate
\* outer table resolves the name to: the definition itself when that table defines the
\* name.  The outer table's own free_symbols does not change when it defines the name.
C5_ResolvingTableHoldsOriginal ==
    [][\A k \in 1..Len(tables), name \in Names :
          (ResolveStep(k, name) /\ BoundOutside(k, name)) =>
              /\ op'.symbol = Symbol(name, "FREE", Len(tables[k].free_symbols))
              /\ op'.symbol = tables'[k].store[name]
              /\ Len(tables'[k].free_symbols) = op'.symbol.index + 1
              /\ tables'[k].free_symbols[op'.symbol.index + 1] = tables'[k - 1].store[name]
              /\ DefinedInOuter(k, name) =>
                    /\ tables'[k].free_symbols[op'.symbol.index + 1]
                           = tables[k - 1].store[name]
                    /\ tables'[k - 1] = tables[k - 1]]_vars

\* resolve on the middle table has just captured the definition of the outer table, whose
\* own free_symbols is empty
C5_Witness ==
    /\ pc = "symtab"
    /\ op.name = "resolve"
    /\ op.k = 3
    /\ op.symbol.scope = "FREE"
    /\ op.argument \in DOMAIN tables[2].store
    /\ tables[2].store[op.argument].scope = "LOCAL"
    /\ tables[3].free_symbols = <<tables[2].store[op.argument]>>
    /\ tables[2].free_symbols = <<>>

FreeSymbolsOf(k) == tables[k].free_symbols

\* the state part of C6, for table k
CapturesInOrder(k) ==
    /\ FreeSymbolsOf(k) = captured[k]
    /\ \A i, j \in 1..Len(FreeSymbolsOf(k)) :
          FreeSymbolsOf(k)[i].name = FreeSymbolsOf(k)[j].name => i = j
    /\ \A i \in 1..Len(FreeSymbolsOf(k)) :
          /\ FreeSymbolsOf(k)[i].scope \in {"LOCAL", "FREE"}
          /\ FreeSymbolsOf(k)[i].name \in DOMAIN tables[k].store
          /\ tables[k].store[FreeSymbolsOf(k)[i].name].scope = "FREE"
                => tables[k].store[FreeSymbolsOf(k)[i].name].index = i - 1
    /\ \A name \in DOMAIN tables[k].store :
          tables[k].store[name].scope = "FREE" =>
              /\ tables[k].store[name].index < Len(FreeSymbolsOf(k))
              /\ FreeSymbolsOf(k)[tables[k].store[name].index + 1].name = name

\* the step part of C6: what resolve(name) on table k returns and appends
ResolveCaptures(k, name) ==
    IF name \in DOMAIN tables[k].store
    THEN /\ op'.symbol = tables[k].store[name]
         /\ tables' = tables
    ELSE IF op'.symbol.scope = "FREE"
    THEN /\ op'.symbol.index = Len(tables[k].free_symbols)
         /\ Len(tables'[k].free_symbols) = Len(tables[k].free_symbols) + 1
    ELSE tables'[k].free_symbols = tables[k].free_symbols

\* C6: after any sequence of define and resolve calls on the chain, the free_symbols of
\* every table is the list of the outer-local and outer-free symbols resolved through that
\* table, each once, in the order of their first resolve; the Free symbol of the k-th
\* capture has index k - 1; and resolve of a name the table already binds (a captured
\* name too) returns the bound symbol and appends nothing anywhere.
C6_FreeSymbolsAreTheCaptures ==
    /\ [](\A k \in 1..Len(tables) : CapturesInOrder(k))
    /\ [][\A k \in 1..Len(tables), name \in Names :
             ResolveStep(k, name) => ResolveCaptures(k, name)]_vars

\* the middle table has captured two names, and the first has just been resolved again
C6_Witness ==
    /\ pc = "symtab"
    /\ op.name = "resolve"
    /\ op.k = 3
    /\ Len(tables[3].free_symbols) = 2
    /\ op.symbol = Symbol(tables[3].free_symbols[1].name, "FREE", 0)
    /\ tables[3].store[tables[3].free_symbols[2].name].index = 1
    /\ captured[3] = tables[3].free_symbols

\* C7 as stated: every entry of every free_symbols has scope Local or Free.
C7_EntriesAreLocalOrFree ==
    \A k \in 1..Len(tables) : \A i \in 1..Len(tables[k].free_symbols) :
        tables[k].free_symbols[i].scope \in {"LOCAL", "FREE"}

\* C7, amended: after any sequence of define, define_builtin, define_function_name and
\* resolve, every entry of a table's free_symbols has scope Local, Free or Function,
\* never Global or Builtin, and the global table's free_symbols is empty.
C7_EntriesAreNeverGlobalOrBuiltin ==
    /\ tables # <<>> => tables[1].free_symbols = <<>>
    /\ \A k \in 1..Len(tables) : \A i \in 1..Len(tables[k].free_symbols) :
          tables[k].free_symbols[i].scope \in {"LOCAL", "FREE", "FUNCTION"}

\* a table has captured a function name, and a name of the global table has just been
\* resolved from a nested table, which captured nothing for it
C7_Witness ==
    /\ pc = "symtab"
    /\ op.name = "resolve"
    /\ op.k >= 2
    /\ op.symbol.scope \in {"GLOBAL", "BUILTIN"}
    /\ \A k \in 1..Len(tables) : \A i \in 1..Len(tables[k].free_symbols) :
          tables[k].free_symbols[i].name # op.argument
    /\ \E k \in 1..Len(tables) : \E i \in 1..Len(tables[k].free_symbols) :
          tables[k].free_symbols[i].scope = "FUNCTION"

(***************************************************************************)
(* What the claims read off the compiler's log of function literals.       *)
(***************************************************************************)
RECURSIVE Flatten(_)
Flatten(ss) == IF ss = <<>> THEN <<>> ELSE Head(ss) \o Flatten(Tail(ss))

\* the instruction that loads a captured symbol, by the scope it has in the outer table
LoadOf(symbol) ==
    CASE symbol.scope = "LOCAL" -> <<Opcode.GET_LOCAL, symbol.index>>
      [] symbol.scope = "FREE" -> <<Opcode.GET_FREE, symbol.index>>
      [] symbol.scope = "FUNCTION" -> <<Opcode.CURRENT_CLOSURE>>
      [] OTHER -> <<>>

\* the same with the two loads C8 names and no other
LoadAsStated(symbol) ==
    IF symbol.scope = "LOCAL" THEN <<Opcode.GET_LOCAL, symbol.index>>
    ELSE <<Opcode.GET_FREE, symbol.index>>

ClosureInstruction(const_index, num_free) ==
    <<Opcode.CLOSURE, const_index \div 256, const_index % 256, num_free>>

\* C8 as stated, its compile half: what the enclosing scope emits for a function literal
\* is one GET_LOCAL or GET_FREE per free symbol, in order, then CLOSURE const_idx n.
C8_LoadsAreGetLocalOrGetFree ==
    \A n \in 1..Len(compile_log) :
        compile_log[n].emitted =
            Flatten([i \in 1..Len(compile_log[n].free_symbols) |->
                        LoadAsStated(compile_log[n].free_symbols[i])])
            \o ClosureInstruction(compile_log[n].const_index,
                                  Len(compile_log[n].free_symbols))

EmitsLoadsThenClosure ==
    \A n \in 1..Len(compile_log) :
        /\ compile_log[n].emitted =
               Flatten([i \in 1..Len(compile_log[n].free_symbols) |->
                           LoadOf(compile_log[n].free_symbols[i])])
               \o ClosureInstruction(compile_log[n].const_index,
                                     Len(compile_log[n].free_symbols))
        /\ \A i \in 1..Len(compile_log[n].free_symbols) :
              compile_log[n].free_symbols[i].scope \in {"LOCAL", "FREE", "FUNCTION"}

\* the operands of the CLOSURE about to execute
ClosureConstIndex ==
    CurrentInstructions[Last(frames).ip + 3] * 256 + CurrentInstructions[Last(frames).ip + 4]
ClosureNumFree == CurrentInstructions[Last(frames).ip + 5]

ClosureTakesTheLoadedValues ==
    (Running /\ NextOpcode = Opcode.CLOSURE) =>
        /\ pc' = "running"
        /\ sp' = sp - ClosureNumFree + 1
        /\ ObjEq(list_get(stack', DEFAULT_STACK_SIZE, sp' - 1),
                 Closure(constants[ClosureConstIndex + 1],
                         [i \in 1..ClosureNumFree |-> stack[sp - ClosureNumFree + i]]))

GetFreePushesTheCapturedValue ==
    (Running /\ NextOpcode = Opcode.GET_FREE) =>
        /\ pc' = "running"
        /\ sp' = sp + 1
        /\ ObjEq(list_get(stack', DEFAULT_STACK_SIZE, sp),
                 Last(frames).cl.free[CurrentInstructions[Last(frames).ip + 3] + 1])

\* C8, amended: for every function literal the enclosing scope emits one load per free
\* symbol, in free_symbols order, then CLOSURE const_idx n with n their number; the load
\* is GET_LOCAL for a symbol that is Local in the enclosing scope, GET_FREE for one that
\* is Free there, and CURRENT_CLOSURE for one that is the enclosing function's own name.
\* At run time CLOSURE takes the n values off the stack and pushes a closure over
\* constant const_idx whose free[i] is the i-th of them, and GET_FREE i inside the
\* closure pushes free[i].
C8_LoadsThenClosure ==
    /\ []EmitsLoadsThenClosure
    /\ [][ClosureTakesTheLoadedValues /\ GetFreePushesTheCapturedValue]_vars

\* inside a closure over two different values, GET_FREE 1 has just pushed the second
C8_Witness ==
    /\ pc = "running"
    /\ Len(frames) >= 2
    /\ Len(Last(frames).cl.free) = 2
    /\ ~ObjEq(Last(frames).cl.free[1], Last(frames).cl.free[2])
    /\ Last(frames).ip >= 1
    /\ CurrentInstructions[Last(frames).ip] = Opcode.GET_FREE
    /\ CurrentInstructions[Last(frames).ip + 1] = 1
    /\ ObjEq(stack[sp], Last(frames).cl.free[2])
    /\ \E n \in 1..Len(compile_log) : Len(compile_log[n].free_symbols) = 2

\* the nodes directly under a node; a function literal's body is under it
Children(node) ==
    CASE node.kind \in {"Program", "BlockStatement"} -> node.statements
      [] node.kind = "LetStatement" -> <<node.value>>
      [] node.kind = "ReturnStatement" -> <<node.return_value>>
      [] node.kind = "ExpressionStatement" -> <<node.expression>>
      [] node.kind = "ArrayLiteral" -> node.elements
      [] node.kind = "HashLiteral" ->
            [i \in 1..(2 * Len(node.pairs)) |-> node.pairs[(i + 1) \div 2][2 - (i % 2)]]
      [] node.kind = "IndexExpression" -> <<node.left, node.index>>
      [] node.kind = "PrefixExpression" -> <<node.right>>
      [] node.kind = "InfixExpression" -> <<node.left, node.right>>
      [] node.kind = "IfExpression" -> <<node.condition, node.consequence, node.alternative>>
      [] node.kind = "CallExpression" -> <<node.function>> \o node.arguments
      [] node.kind = "FunctionLiteral" -> <<node.body>>
      [] OTHER -> <<>>

RECURSIVE References(_, _)
RECURSIVE ReferencesIn(_, _)
RECURSIVE Binds(_, _)
RECURSIVE BindsIn(_, _)
RECURSIVE Literals(_)
RECURSIVE LiteralsIn(_)
RECURSIVE Identifiers(_)
RECURSIVE IdentifiersIn(_)
RECURSIVE CountOpcode(_, _, _)

\* the identifiers named name in node that are not inside a nested function literal
References(node, name) ==
    IF node.kind = "Identifier" THEN (IF node.value = name THEN 1 ELSE 0)
    ELSE IF node.kind = "FunctionLiteral" THEN 0
    ELSE ReferencesIn(Children(node), name)

ReferencesIn(nodes, name) ==
    IF nodes = <<>> THEN 0 ELSE References(Head(nodes), name) + ReferencesIn(Tail(nodes), name)

\* the let statements of name in node that are not inside a nested function literal
Binds(node, name) ==
    IF node.kind = "FunctionLiteral" THEN 0
    ELSE (IF node.kind = "LetStatement" /\ node.name = name THEN 1 ELSE 0)
         + BindsIn(Children(node), name)

BindsIn(nodes, name) ==
    IF nodes = <<>> THEN 0 ELSE Binds(Head(nodes), name) + BindsIn(Tail(nodes), name)

\* the function literals in node, those inside them not counted
Literals(node) ==
    IF node.kind = "FunctionLiteral" THEN 1 ELSE LiteralsIn(Children(node))

LiteralsIn(nodes) ==
    IF nodes = <<>> THEN 0 ELSE Literals(Head(nodes)) + LiteralsIn(Tail(nodes))

\* every identifier in node, nested function literals included
Identifiers(node) ==
    IF node.kind = "Identifier" THEN {node.value} ELSE IdentifiersIn(Children(node))

IdentifiersIn(nodes) ==
    IF nodes = <<>> THEN {} ELSE Identifiers(Head(nodes)) \cup IdentifiersIn(Tail(nodes))

InstructionLength(opcode) ==
    IF operand_widths(opcode) = <<>> THEN 1
    ELSE IF Len(operand_widths(opcode)) = 1 THEN 1 + operand_widths(opcode)[1]
    ELSE 1 + operand_widths(opcode)[1] + operand_widths(opcode)[2]

\* the instructions of opcode in instructions, from position pos on
CountOpcode(instructions, pos, opcode) ==
    IF pos > Len(instructions) THEN 0
    ELSE (IF instructions[pos] = opcode THEN 1 ELSE 0)
         + CountOpcode(instructions, pos + InstructionLength(instructions[pos]), opcode)

SeqToSet(seq) == {seq[i] : i \in 1..Len(seq)}

\* a let statement names the literal, and nothing in the literal binds the name again
NamedAndUnshadowed(literal) ==
    /\ literal.name # ""
    /\ literal.name \notin SeqToSet(literal.parameters)
    /\ Binds(literal.body, literal.name) = 0

CompilesOwnNameToCurrentClosure ==
    \A n \in 1..Len(compile_log) :
        NamedAndUnshadowed(compile_log[n].node) =>
            /\ \A i \in 1..Len(compile_log[n].free_symbols) :
                  /\ compile_log[n].free_symbols[i].name # compile_log[n].node.name
                  /\ compile_log[n].free_symbols[i].name
                         \in Identifiers(compile_log[n].node.body)
            /\ Literals(compile_log[n].node.body) = 0 =>
                  CountOpcode(compile_log[n].instructions, 1, Opcode.CURRENT_CLOSURE)
                      = References(compile_log[n].node.body, compile_log[n].node.name)
            /\ Identifiers(compile_log[n].node.body)
                   \subseteq ({compile_log[n].node.name}
                              \cup SeqToSet(compile_log[n].node.parameters)) =>
                  compile_log[n].emitted = ClosureInstruction(compile_log[n].const_index, 0)

CurrentClosurePushesTheRunningClosure ==
    (Running /\ NextOpcode = Opcode.CURRENT_CLOSURE) =>
        /\ pc' = "running"
        /\ sp' = sp + 1
        /\ frames' = [frames EXCEPT ![Len(frames)].ip = @ + 1]
        /\ ObjEq(list_get(stack', DEFAULT_STACK_SIZE, sp), Last(frames).cl)

CallOfTheRunningClosureReentersIt ==
    (AtCallOfClosure /\ ObjEq(Callee, Last(frames).cl)) =>
        /\ Len(frames') = Len(frames) + 1
        /\ ObjEq(Last(frames').cl, Last(frames).cl)

\* C9: in a function literal a let statement binds to N, and that does not bind N again,
\* every reference to N compiles to CURRENT_CLOSURE and N is no entry of the literal's
\* free_symbols, so the enclosing scope emits CLOSURE const_idx 0 when the body names
\* only N and the parameters; at run time CURRENT_CLOSURE pushes the closure of the top
\* frame, and a call of that closure runs in a new frame over the same closure.
C9_OwnNameIsCurrentClosure ==
    /\ []CompilesOwnNameToCurrentClosure
    /\ [][CurrentClosurePushesTheRunningClosure /\ CallOfTheRunningClosureReentersIt]_vars

\* a closure that captured one value has called itself: its frame is entered again, over
\* the same closure
C9_Witness ==
    /\ pc = "running"
    /\ Len(frames) >= 3
    /\ Last(frames).ip = 0 - 1
    /\ ObjEq(Last(frames).cl, frames[Len(frames) - 1].cl)
    /\ Len(Last(frames).cl.free) = 1
    /\ CountOpcode(Last(frames).cl.fn.instructions, 1, Opcode.CURRENT_CLOSURE) = 1
    /\ \E n \in 1..Len(compile_log) :
          /\ NamedAndUnshadowed(compile_log[n].node)
          /\ Len(compile_log[n].free_symbols) = 1

(***************************************************************************)
(* Statement position: the byte offsets of the main buffer at which a      *)
(* top-level statement of the program begins or ends.                      *)
(***************************************************************************)
\* the length of the instructions compiled for the first k top-level statements
StatementOffset(k) ==
    Len(Bytecode(compile(Compiler(CompilerState),
                         Program(SubSeq(program.statements, 1, k)))).instructions)

StatementOffsets == {StatementOffset(k) : k \in 0..Len(program.statements)}

\* the main frame is about to fetch the first instruction of a top-level statement,
\* or has run off the end of the last one
BetweenStatements ==
    /\ pc \in {"running", "done"}
    /\ Len(frames) = 1
    /\ (frames[1].ip + 1) \in StatementOffsets

\* C11: whenever the main frame stands between two top-level statements the operand
\* stack is empty, and sp is 0 when run() has finished without error
C11_StatementsLeaveTheStackEmpty ==
    /\ BetweenStatements => sp = 0
    /\ pc = "done" => sp = 0

\* run() finished without error on a program of several statements, after a statement
\* that pushed and popped values (last was written)
C11_Witness ==
    /\ pc = "done"
    /\ error = ""
    /\ Len(program.statements) >= 3
    /\ last # NoObject
    /\ sp = 0

(***************************************************************************)
(* The jumps of the compiled buffers.                                      *)
(***************************************************************************)
\* the instruction buffers the compiler produced: the main one and one per function
Buffers ==
    <<bytecode.instructions>> \o [n \in 1..Len(compile_log) |-> compile_log[n].instructions]

RECURSIVE InstructionStarts(_, _)
\* the byte offsets at which an instruction of the buffer begins, from offset pos on
InstructionStarts(instructions, pos) ==
    IF pos >= Len(instructions) THEN {}
    ELSE {pos} \cup InstructionStarts(instructions,
                                      pos + InstructionLength(instructions[pos + 1]))

\* an instruction boundary inside the buffer: an offset where an instruction begins
IsBoundary(instructions, target) == target \in InstructionStarts(instructions, 0)

JumpOffsets(instructions, opcode) ==
    {o \in InstructionStarts(instructions, 0) : instructions[o + 1] = opcode}

\* the placeholder compile_if_expression emits
Placeholder == 9999

\* a JUMP_NOT_TRUTHY at offset o: its target is just after a JUMP that follows it,
\* and that JUMP does not jump back before the target
JumpNotTruthyAsStated(instructions, o) ==
    LET target == unpack_ushort(instructions, o + 1) IN
    /\ target # Placeholder
    /\ IsBoundary(instructions, target)
    /\ target > o
    /\ (target - 3) \in JumpOffsets(instructions, Opcode.JUMP)
    /\ target - 3 > o
    /\ unpack_ushort(instructions, target - 2) >= target

\* a JUMP at offset o: its target is a boundary after it, and it is the JUMP of one
\* JUMP_NOT_TRUTHY
JumpAsStated(instructions, o) ==
    LET target == unpack_ushort(instructions, o + 1) IN
    /\ target # Placeholder
    /\ IsBoundary(instructions, target)
    /\ target > o
    /\ \E j \in JumpOffsets(instructions, Opcode.JUMP_NOT_TRUTHY) :
          j < o /\ unpack_ushort(instructions, j + 1) = o + 3

\* the JUMP of a program that is one if expression: it targets the statement's POP,
\* the offset just after the alternative, which is one NULL when there is no else
TopLevelJumpAsStated ==
    \E o \in JumpOffsets(bytecode.instructions, Opcode.JUMP) :
        /\ unpack_ushort(bytecode.instructions, o + 1) = Len(bytecode.instructions) - 1
        /\ program.statements[1].expression.alternative = NoNode =>
              /\ bytecode.instructions[o + 4] = Opcode.NULL
              /\ unpack_ushort(bytecode.instructions, o + 1) = o + 4

\* C12: in every buffer the compiler produces, each JUMP_NOT_TRUTHY targets the offset
\* just after its JUMP, each JUMP targets a later instruction boundary of the same
\* buffer (just after the alternative or the NULL), and no operand is the placeholder
C12_JumpsTargetBoundaries ==
    /\ \A n \in 1..Len(Buffers) :
          /\ \A o \in JumpOffsets(Buffers[n], Opcode.JUMP_NOT_TRUTHY) :
                JumpNotTruthyAsStated(Buffers[n], o)
          /\ \A o \in JumpOffsets(Buffers[n], Opcode.JUMP) : JumpAsStated(Buffers[n], o)
    /\ (IsIfProgram /\ pc # "start") => TopLevelJumpAsStated

\* a compiled program with an if expression inside a function: its buffer holds a
\* JUMP_NOT_TRUTHY and a JUMP over an else block
C12_Witness ==
    /\ pc = "compiled"
    /\ \E n \in 2..Len(Buffers) :
          /\ JumpOffsets(Buffers[n], Opcode.JUMP_NOT_TRUTHY) # {}
          /\ \E o \in JumpOffsets(Buffers[n], Opcode.JUMP) :
                unpack_ushort(Buffers[n], o + 1) > o + 4

(***************************************************************************)
(* The end of a compiled function.                                         *)
(***************************************************************************)
\* the opcode of the last instruction of a buffer that is not empty
LastOpcode(instructions) ==
    instructions[(CHOOSE o \in InstructionStarts(instructions, 0) :
                     \A q \in InstructionStarts(instructions, 0) : q <= o) + 1]

\* the function compiled for compile_log[n] ends as its body's last statement asks:
\* an expression statement's POP became RETURN_VALUE in place, a return statement
\* stays the end, and after a let statement or no statement a RETURN was appended
EndsAsStated(n) ==
    LET body == compile_log[n].node.body.statements
        instructions == compile_log[n].instructions IN
    /\ instructions # <<>>
    /\ LastOpcode(instructions) \in {Opcode.RETURN_VALUE, Opcode.RETURN}
    /\ body = <<>> => instructions = <<Opcode.RETURN>>
    /\ (body # <<>> /\ Last(body).kind \in {"ExpressionStatement", "ReturnStatement"}) =>
          LastOpcode(instructions) = Opcode.RETURN_VALUE
    /\ (body # <<>> /\ Last(body).kind = "LetStatement") =>
          /\ LastOpcode(instructions) = Opcode.RETURN
          /\ instructions[Len(instructions) - 2] = Opcode.SET_LOCAL

\* C13: every compiled function ends with RETURN_VALUE or RETURN, and a called
\* function never reaches the end of its instructions: run() ends in the main frame
C13_FunctionsEndWithAReturn ==
    /\ \A n \in 1..Len(compile_log) : EndsAsStated(n)
    /\ (pc \in {"running", "done"} /\ Len(frames) > 1) =>
          Last(frames).ip < Len(Last(frames).cl.fn.instructions) - 1

\* a called function whose body ends with a let statement is about to execute the
\* RETURN appended to it
C13_Witness ==
    /\ Running
    /\ Len(frames) = 2
    /\ NextOpcode = Opcode.RETURN
    /\ Last(frames).ip + 2 = Len(CurrentInstructions)
    /\ Len(CurrentInstructions) > 1

(***************************************************************************)
(* The locals of a compiled function.                                      *)
(***************************************************************************)
RECURSIVE Lets(_)
RECURSIVE LetsIn(_)
\* the let statements in node that are not inside a nested function literal
Lets(node) ==
    IF node.kind = "FunctionLiteral" THEN 0
    ELSE (IF node.kind = "LetStatement" THEN 1 ELSE 0) + LetsIn(Children(node))

LetsIn(nodes) == IF nodes = <<>> THEN 0 ELSE Lets(Head(nodes)) + LetsIn(Tail(nodes))

\* the symbol tables when compile_function_literal is about to compile the body of node
ParameterTables(node) ==
    define_parameters(function_name(enter_scope(Compiler(CompilerState)), node),
                      node.parameters).tables

\* the parameters are the locals 0..num_parameters-1, in declaration order
ParametersAreTheFirstLocals(node) ==
    \A i \in 1..Len(node.parameters) :
        resolve(ParameterTables(node), Len(ParameterTables(node)), node.parameters[i]).symbol
            = Symbol(node.parameters[i], "LOCAL", i - 1)

\* the CompiledFunction added to the constants for compile_log[n]
CompiledFunctionOf(n) == bytecode.constants[compile_log[n].const_index + 1]

\* C14: a compiled function's num_parameters is the number of its parameters, its
\* num_locals is the next_index of its own table when the body is done, which is the
\* parameters plus the let statements of the body outside nested function literals,
\* and the parameters are the locals 0..num_parameters-1 in declaration order
C14_NumLocalsCountsTheDefines ==
    \A n \in 1..Len(compile_log) :
        /\ CompiledFunctionOf(n).num_parameters = Len(compile_log[n].node.parameters)
        /\ CompiledFunctionOf(n).num_locals = compile_log[n].num_locals
        /\ CompiledFunctionOf(n).num_locals
              = Len(compile_log[n].node.parameters) + Lets(compile_log[n].node.body)
        /\ ParametersAreTheFirstLocals(compile_log[n].node)

\* a compiled program with a named function of one parameter that captures a free
\* symbol, inside a function with a parameter, a let statement and so two locals
C14_Witness ==
    /\ pc = "compiled"
    /\ \E n \in 1..Len(compile_log) :
          /\ compile_log[n].node.name # ""
          /\ compile_log[n].free_symbols # <<>>
          /\ Len(compile_log[n].node.parameters) = 1
          /\ CompiledFunctionOf(n).num_locals = 1
    /\ \E n \in 1..Len(compile_log) :
          /\ Literals(compile_log[n].node.body) = 1
          /\ Lets(compile_log[n].node.body) = 1
          /\ Len(compile_log[n].node.parameters) = 1
          /\ CompiledFunctionOf(n).num_locals = 2

(***************************************************************************)
(* The operand pairs of the binary opcodes.                                *)
(***************************************************************************)
BinaryOpcodes ==
    {Opcode.ADD, Opcode.SUBTRACT, Opcode.MULTIPLY, Opcode.DIVIDE,
     Opcode.LESS_THAN, Opcode.GREATER_THAN, Opcode.EQUAL, Opcode.NOT_EQUAL}

\* the combinations the binary opcodes are said to support
Supported(left, opcode, right) ==
    \/ opcode \in {Opcode.EQUAL, Opcode.NOT_EQUAL}
    \/ left.type = "INTEGER" /\ right.type = "INTEGER"
    \/ /\ left.type = "STRING" /\ right.type = "STRING"
       /\ opcode \in {Opcode.ADD, Opcode.LESS_THAN, Opcode.GREATER_THAN}

\* a step of run() that executes a binary opcode with two operands on the stack
BinaryStep ==
    /\ Running
    /\ NextOpcode \in BinaryOpcodes
    /\ sp >= 2
    /\ pc' \in {"running", "error"}

\* C15: a binary opcode on a supported pair pops two values and pushes one, and on
\* any other pair run() raises
C15_UnsupportedPairsRaise ==
    [][BinaryStep =>
          IF Supported(stack[sp - 1], NextOpcode, stack[sp])
          THEN error' = "" /\ sp' = sp - 1
          ELSE error' # ""]_vars

(***************************************************************************)
(* CALL on a callee that cannot be called with the given arguments.        *)
(***************************************************************************)
\* the callee slot of the CALL about to execute holds a closure of another arity, or
\* a value that is neither a closure nor a builtin
AtCallOfWrongCallee ==
    /\ Running
    /\ NextOpcode = Opcode.CALL
    /\ \/ Callee.type = "CLOSURE" /\ Callee.fn.num_parameters # NumArgs
       \/ Callee.type \notin {"CLOSURE", "BUILTIN"}

\* C16: a CALL whose callee is a closure of another arity, or neither a closure nor a
\* builtin, raises; no frame is pushed and sp stays as it was
C16_WrongCalleeRaises ==
    [][AtCallOfWrongCallee =>
          /\ pc' = "error"
          /\ error' # ""
          /\ Len(frames') = Len(frames)
          /\ sp' = sp]_vars

\* run() has failed on the call of a closure of one parameter with no argument: the
\* closure is still the only value on the stack and the main frame the only frame
C16_Witness ==
    /\ pc = "error"
    /\ error = "wrong number of arguments"
    /\ sp = 1
    /\ stack[1].type = "CLOSURE"
    /\ stack[1].fn.num_parameters = 1
    /\ Len(frames) = 1

(***************************************************************************)
(* CALL on a builtin.                                                      *)
(***************************************************************************)
AtCallOfBuiltin ==
    /\ Running
    /\ NextOpcode = Opcode.CALL
    /\ Callee.type = "BUILTIN"

\* stack[sp - num_args .. sp], in push order
Arguments == [i \in 1..NumArgs |-> stack[sp - NumArgs + i]]

\* the builtin takes NumArgs arguments and each argument has a type it accepts
ArgumentsMatch ==
    /\ Len(argument_types(Callee.name)) = NumArgs
    /\ \A i \in 1..NumArgs :
          \/ "*" \in argument_types(Callee.name)[i]
          \/ Arguments[i].type \in argument_types(Callee.name)[i]

\* C17: a CALL on a builtin whose arity and argument types match pushes no frame and
\* leaves the callable's result, computed from the arguments in push order, in the slot
\* that held the builtin, the depth being the depth before minus num_args; on a
\* mismatch it raises and leaves sp and the frame stack as they were
C17_BuiltinCallReplacesTheCallee ==
    [][AtCallOfBuiltin =>
          IF ArgumentsMatch
          THEN /\ pc' = "running"
               /\ frames' = [frames EXCEPT ![Len(frames)].ip = @ + 2]
               /\ sp' = sp - NumArgs
               /\ ObjEq(stack'[sp'], builtin_callable(Callee.name, Arguments))
               /\ \A i \in 1..(sp' - 1) : ObjEq(stack'[i], stack[i])
          ELSE /\ pc' = "error"
               /\ error' # ""
               /\ sp' = sp
               /\ Len(frames') = Len(frames)]_vars

\* push([1], 2) has returned inside first(rest(push([1], 2))): the array [1, 2] stands
\* in the slot that held push, above first and rest, and no frame was pushed
C17_Witness ==
    /\ pc = "running"
    /\ Len(frames) = 1
    /\ sp = 3
    /\ stack[1].type = "BUILTIN"
    /\ stack[2].type = "BUILTIN"
    /\ stack[3].type = "ARRAY"
    /\ Len(stack[3].elements) = 2

(***************************************************************************)
(* The limits of the operand stack.                                        *)
(***************************************************************************)
\* the opcodes whose case in run() begins with a push, and those that begin with a pop
PushingOpcodes ==
    {Opcode.CONSTANT_, Opcode.TRUE, Opcode.FALSE, Opcode.NULL, Opcode.GET_GLOBAL,
     Opcode.GET_LOCAL, Opcode.GET_BUILTIN, Opcode.GET_FREE, Opcode.CURRENT_CLOSURE}

PoppingOpcodes ==
    {Opcode.POP, Opcode.ADD, Opcode.SUBTRACT, Opcode.MULTIPLY, Opcode.DIVIDE,
     Opcode.EQUAL, Opcode.NOT_EQUAL, Opcode.LESS_THAN, Opcode.GREATER_THAN,
     Opcode.MINUS, Opcode.BANG, Opcode.JUMP_NOT_TRUTHY, Opcode.SET_GLOBAL,
     Opcode.SET_LOCAL, Opcode.INDEX, Opcode.RETURN_VALUE}

\* push_stack and pop_stack applied to the machine as it is: at the capacity a push,
\* and at depth 0 a pop, only sets the error
FailedOperationChangesNothing ==
    /\ (error = "" /\ sp = DEFAULT_STACK_SIZE) =>
          /\ push_stack(vm_state, NULL).error = "Stack overflow"
          /\ push_stack(vm_state, NULL).sp = sp
          /\ push_stack(vm_state, NULL).stack = stack
    /\ (error = "" /\ sp = 0) =>
          /\ pop_stack(vm_state).error = "Stack underflow"
          /\ pop_stack(vm_state).sp = sp
          /\ pop_stack(vm_state).stack = stack

\* an instruction that pushes with the stack full, or pops with the stack empty, ends
\* run() with the error, sp and the stack as they were
FailedInstructionChangesNothing ==
    /\ (Running /\ NextOpcode \in PushingOpcodes /\ sp = DEFAULT_STACK_SIZE) =>
          /\ pc' = "error"
          /\ error' = "Stack overflow"
          /\ sp' = sp
          /\ stack' = stack
    /\ (Running /\ NextOpcode \in PoppingOpcodes /\ sp = 0) =>
          /\ pc' = "error"
          /\ error' = "Stack underflow"
          /\ sp' = sp
          /\ stack' = stack

\* C18: a push at sp = 2048 raises "Stack overflow" and a pop at sp = 0 raises "Stack
\* underflow", and neither changes sp or the stack
C18_OverflowAndUnderflowChangeNothing ==
    /\ []FailedOperationChangesNothing
    /\ [][FailedInstructionChangesNothing]_vars

\* run() has failed on a pop of the empty stack
C18_Witness ==
    /\ pc = "error"
    /\ error = "Stack underflow"
    /\ sp = 0
    /\ Len(frames) = 1

\* run() has failed on a push with the stack full
StackOverflowed ==
    /\ pc = "error"
    /\ error = "Stack overflow"
    /\ sp = DEFAULT_STACK_SIZE
    /\ Len(stack) = DEFAULT_STACK_SIZE

(***************************************************************************)
(* The depth of the frame stack.                                           *)
(***************************************************************************)
\* a CALL is about to execute with the frame stack at the maximum depth
AtCallWithFramesFull ==
    /\ Running
    /\ NextOpcode = Opcode.CALL
    /\ Len(frames) = DEFAULT_MAX_FRAMES

\* C19: the frame stack never holds more than DEFAULT_MAX_FRAMES (1024) frames, and a
\* CALL at that depth pushes no frame
C19_FramesStayWithinTheMaximum ==
    /\ [](Len(frames) <= DEFAULT_MAX_FRAMES)
    /\ [][AtCallWithFramesFull => Len(frames') <= Len(frames)]_vars

(***************************************************************************)
(* The last popped object.                                                 *)
(***************************************************************************)
\* the final top-level statement of the program is an expression statement
EndsWithExpressionStatement ==
    /\ program.statements # <<>>
    /\ Last(program.statements).kind = "ExpressionStatement"

\* a POP instruction is about to pop a value
AtPop ==
    /\ Running
    /\ NextOpcode = Opcode.POP
    /\ sp >= 1

\* C20: the POP instruction writes the value it pops to last, and when run() has
\* finished on a program whose final top-level statement is an expression statement,
\* last is the value the final POP popped: the one left in slot 0 of the stack
C20_LastIsTheLastPoppedValue ==
    /\ [][AtPop => (pc' = "running" /\ sp' = sp - 1 /\ ObjEq(last', stack[sp]))]_vars
    /\ []((pc = "done" /\ EndsWithExpressionStatement) =>
             (sp = 0 /\ stack # <<>> /\ ObjEq(last, stack[1])))

\* run() has finished on let one = 1; let two = one + one; one + two with last = 3
C20_Witness ==
    /\ pc = "done"
    /\ Len(program.statements) = 3
    /\ EndsWithExpressionStatement
    /\ last.type = "INTEGER"
    /\ last.value = 3

(***************************************************************************)
(* The effect of POP.                                                      *)
(***************************************************************************)
\* C21: a POP executed with sp > 0 lowers the depth by exactly 1; the frame stack keeps
\* its frames (only the ip of the running frame moves past the POP), and the globals and
\* every stack slot below the old top stay as they were
C21_PopLowersTheDepthByOne ==
    [][(Running /\ NextOpcode = Opcode.POP /\ sp > 0) =>
          /\ pc' = "running"
          /\ error' = ""
          /\ sp' = sp - 1
          /\ frames' = [frames EXCEPT ![Len(frames)].ip = @ + 1]
          /\ globals' = globals
          /\ Len(stack') >= sp - 1
          /\ \A i \in 1..(sp - 1) : ObjEq(stack'[i], stack[i])]_vars

\* the POP of the statement x; in let a = 1; fn(x) { x; a }(0); has just run: the
\* closure and the argument stay below, in the second frame, with the global a defined
C21_Witness ==
    /\ pc = "running"
    /\ Len(frames) = 2
    /\ Len(Last(frames).cl.fn.instructions) >= 3
    /\ Last(frames).cl.fn.instructions[3] = Opcode.POP
    /\ Last(frames).ip = 2
    /\ sp = 2
    /\ globals # <<>>


(***************************************************************************)
(* C22: state kept from one line of the REPL to the next.                  *)
(***************************************************************************)
\* the names a program binds by let at the top level
TopLevelLets(p) ==
    {p.statements[i].name :
        i \in {j \in 1..Len(p.statements) : p.statements[j].kind = "LetStatement"}}

\* every entry of a is an entry of b at the same index
IsPrefixOf(a, b) ==
    /\ Len(a) <= Len(b)
    /\ \A i \in 1..Len(a) : ObjEq(a[i], b[i])

\* a compile of the REPL leaves every global of the CompilerState that the line does
\* not bind again under its name, with its index
GlobalsKeepTheirSlot ==
    (pc = "prompt" /\ pc' # "prompt") =>
        \A n \in DOMAIN compiler_state.symbol_table.store :
            (/\ compiler_state.symbol_table.store[n].scope = "GLOBAL"
             /\ n \notin TopLevelLets(program')) =>
                /\ n \in DOMAIN compiler_state'.symbol_table.store
                /\ compiler_state'.symbol_table.store[n] = compiler_state.symbol_table.store[n]

\* the machine of a line starts from the globals the earlier runs stored, and hands
\* them on when it is done
GlobalsKeepTheirValue ==
    /\ (pc = "compiled" /\ pc' = "running") => IsPrefixOf(virtual_machine_state.globals, globals')
    /\ (pc = "done" /\ pc' = "prompt") => IsPrefixOf(globals, virtual_machine_state'.globals)

\* the constants of the earlier lines stay where they are, and the machine of a line
\* gets all of them
ConstantsKeepTheirIndex ==
    /\ (pc = "prompt" /\ pc' # "prompt") =>
            IsPrefixOf(compiler_state.constants, compiler_state'.constants)
    /\ (pc = "prompt" /\ pc' = "compiled") =>
            IsPrefixOf(compiler_state'.constants, bytecode'.constants)
    /\ (pc = "compiled" /\ pc' = "running") => IsPrefixOf(bytecode.constants, constants')

\* C22: when successive programs are compiled with one CompilerState and run with
\* one VirtualMachineState, a global bound by let in an earlier program keeps its
\* slot index in every later compile (that does not bind the name again), a later
\* program that reads the name gets the value the earlier run stored, and the
\* constants of a closure stored earlier stay at their indices.
C22_GlobalsAndConstantsSurvive ==
    [][GlobalsKeepTheirSlot /\ GlobalsKeepTheirValue /\ ConstantsKeepTheirIndex]_vars


(***************************************************************************)
(* C23: the constants pool.                                                *)
(***************************************************************************)
RECURSIVE ConstantNodes(_)
RECURSIVE ConstantNodesIn(_)
\* the nodes of a program that compile to an add_constant: the integer, string and
\* function literals, those inside function literals included
ConstantNodes(node) ==
    (IF node.kind \in {"IntegerLiteral", "StringLiteral", "FunctionLiteral"} THEN 1 ELSE 0)
        + ConstantNodesIn(Children(node))

ConstantNodesIn(nodes) ==
    IF nodes = <<>> THEN 0 ELSE ConstantNodes(Head(nodes)) + ConstantNodesIn(Tail(nodes))

\* the offsets of the instructions of a buffer that carry a constant index
ConstantOffsets(instructions) ==
    JumpOffsets(instructions, Opcode.CONSTANT_) \cup JumpOffsets(instructions, Opcode.CLOSURE)

\* the constant indices in the operands of a buffer
ConstantOperands(instructions) ==
    {unpack_ushort(instructions, o + 1) : o \in ConstantOffsets(instructions)}

\* the indices of the constants a compile added to a pool of the given length
Added(before, after) == {k \in 0..(Len(after) - 1) : k >= Len(before)}

\* a compile of the REPL changes no entry the pool had; one that succeeds has added
\* one entry per literal of the line, equal or not, and the indices in the operands
\* of the code it emitted are the indices of those entries
PoolGrowsByTheLiterals ==
    (pc = "prompt" /\ pc' # "prompt") =>
        /\ IsPrefixOf(compiler_state.constants, compiler_state'.constants)
        /\ pc' = "compiled" =>
              /\ Len(compiler_state'.constants) =
                     Len(compiler_state.constants) + ConstantNodes(program')
              /\ UNION {ConstantOperands(Buffers'[n]) : n \in 1..Len(Buffers')} =
                     Added(compiler_state.constants, compiler_state'.constants)

\* the functions already in the pool keep the constants their operands name
EmittedIndicesDenoteTheSameValue ==
    (pc = "prompt" /\ pc' # "prompt") =>
        \A k \in 1..Len(compiler_state.constants) :
            compiler_state.constants[k].type = "COMPILED_FUNCTION" =>
                \A i \in ConstantOperands(compiler_state.constants[k].instructions) :
                    /\ i < Len(compiler_state.constants)
                    /\ ObjEq(compiler_state'.constants[i + 1], compiler_state.constants[i + 1])

\* C23: the constants pool is append-only: add_constant appends one value at the
\* index that was the length and changes or removes no entry, so over any sequence
\* of compiles an index already emitted in a CONSTANT or CLOSURE operand denotes
\* the same value; equal literals are not deduplicated.
C23_ConstantsAreAppendOnly ==
    [][PoolGrowsByTheLiterals /\ EmittedIndicesDenoteTheSameValue]_vars

\* the second line has been compiled and run, its first literal 1 stored again
\* although the pool held a 1 from the first line, and a function of the first line
\* is in the pool with a CONSTANT operand
C23_Witness ==
    /\ pc = "done"
    /\ lines = <<1, 11>>
    /\ Len(compiler_state.constants) > 4
    /\ ObjEq(compiler_state.constants[1], Integer(1))
    /\ ObjEq(compiler_state.constants[5], Integer(1))
    /\ compiler_state.constants[3].type = "COMPILED_FUNCTION"
    /\ ConstantOperands(compiler_state.constants[3].instructions) = {1}


(***************************************************************************)
(* C24: a compile that raises.                                             *)
(***************************************************************************)
\* two compiles ended alike: the same exception, or the same Bytecode
SameOutcome(c1, c2) ==
    /\ c1.error = c2.error
    /\ c1.error = "" =>
          /\ Bytecode(c1).instructions = Bytecode(c2).instructions
          /\ Len(c1.constants) = Len(c2.constants)
          /\ IsPrefixOf(c1.constants, c2.constants)

\* a compile of the REPL raised
CompileRaised == pc = "prompt" /\ pc' = "compile_error"

\* C24: a compile that hits an error raises and produces no partial bytecode: no
\* Bytecode comes out of it, and a later compile that reuses the CompilerState
\* ends as it would have ended had the failed compile not happened.
C24_FailedCompileLeavesNoTrace ==
    [][CompileRaised =>
          /\ error' # ""
          /\ bytecode' = bytecode
          /\ \A i \in 1..Len(ReplLines) :
                SameOutcome(compile(Compiler(compiler_state'), ReplLines[i]),
                            compile(Compiler(compiler_state), ReplLines[i]))]_vars


(***************************************************************************)
(* C25: resolve of a global, of a built-in and of an unbound name.         *)
(***************************************************************************)
\* resolve(name) on table k ends in the global table, which binds name as a Global
\* or a Builtin
BoundInGlobalTable(k, name) ==
    /\ binder(tables, k, name) = 1
    /\ tables[1].store[name].scope \in {"GLOBAL", "BUILTIN"}

\* no table at or outside table k binds name
BoundNowhere(k, name) == binder(tables, k, name) = 0

\* C25: resolving, from a table at any depth, a name the global table binds as
\* Global or Builtin returns that symbol and changes no table of the chain;
\* resolving a name bound nowhere on the chain returns None and changes nothing.
C25_ResolveOfGlobalsChangesNothing ==
    [][\A k \in 1..Len(tables), name \in Names :
          /\ (ResolveStep(k, name) /\ BoundInGlobalTable(k, name)) =>
                /\ op'.symbol = tables[1].store[name]
                /\ op'.error = ""
                /\ tables' = tables
          /\ (ResolveStep(k, name) /\ BoundNowhere(k, name)) =>
                /\ op'.symbol = NoSymbol
                /\ op'.error = ""
                /\ tables' = tables]_vars

\* the innermost table has just resolved a built-in of the global table, while the
\* global table also holds a global
C25_Witness ==
    /\ op.name = "resolve"
    /\ op.k = Len(Chain)
    /\ op.symbol.scope = "BUILTIN"
    /\ binder(tables, Len(Chain), op.argument) = 1
    /\ \E name \in Names : /\ name \in DOMAIN tables[1].store
                           /\ tables[1].store[name].scope = "GLOBAL"


(***************************************************************************)
(* C26: define and define_builtin.                                         *)
(***************************************************************************)
\* the step is the call name(argument) on table k
CallStep(name, k, argument) ==
    /\ op'.name = name
    /\ op'.calls = op.calls + 1
    /\ op'.k = k
    /\ op'.argument = argument

\* table k after the call is table k before it with store[name] set to symbol and
\* next_index grown by grow; the other tables are as they were
OnlyStores(k, name, symbol, grow) ==
    /\ DOMAIN tables'[k].store = DOMAIN tables[k].store \cup {name}
    /\ tables'[k].store[name] = symbol
    /\ \A other \in DOMAIN tables[k].store \ {name} :
           tables'[k].store[other] = tables[k].store[other]
    /\ tables'[k].next_index = tables[k].next_index + grow
    /\ tables'[k].free_symbols = tables[k].free_symbols
    /\ \A j \in 1..Len(tables) \ {k} : tables'[j] = tables[j]

\* the indices of the built-ins
BuiltinIndices == 0..(Len(BUILTINS) - 1)

\* C26: define(name) returns a Global symbol on a table without outer and a Local
\* one otherwise, with the table's next_index before the call as index; next_index
\* grows by one on every define, also when the name was present (the entry is
\* overwritten). define_builtin raises on a table with an outer, and otherwise
\* stores a Builtin symbol with the given index and leaves next_index alone.
C26_DefineCountsEveryCall ==
    [][\A k \in 1..Len(tables), name \in Names :
          /\ CallStep("define", k, name) =>
                /\ op'.error = ""
                /\ op'.symbol.name = name
                /\ op'.symbol.scope = (IF k = 1 THEN "GLOBAL" ELSE "LOCAL")
                /\ op'.symbol.index = tables[k].next_index
                /\ OnlyStores(k, name, op'.symbol, 1)
          /\ (CallStep("define_builtin", k, name) /\ k > 1) =>
                /\ op'.error # ""
                /\ tables' = tables
          /\ (CallStep("define_builtin", k, name) /\ k = 1) =>
                /\ op'.error = ""
                /\ op'.symbol.name = name
                /\ op'.symbol.scope = "BUILTIN"
                /\ OnlyStores(k, name, op'.symbol, 0)
                /\ \A index \in BuiltinIndices :
                       /\ define_builtin(tables, k, index, name).symbol.index = index
                       /\ define_builtin(tables, k, index, name).tables[k].next_index
                              = tables[k].next_index]_vars

\* a table with an outer has just been given a name by define for the second time
C26_Witness ==
    /\ op.name = "define"
    /\ op.k > 1
    /\ op.symbol.scope = "LOCAL"
    /\ op.symbol.index = 1
    /\ tables[op.k].next_index = 2
    /\ DOMAIN tables[op.k].store = {op.argument}


(***************************************************************************)
(* C27: the indices of the built-ins.                                      *)
(***************************************************************************)
\* the names of the registry
BuiltinNames == {BUILTINS[i] : i \in 1..Len(BUILTINS)}

\* the index of a name of the registry
BuiltinIndex(name) == CHOOSE i \in BuiltinIndices : BUILTINS[i + 1] = name

\* the operands of the GET_BUILTIN instructions of a buffer
GetBuiltinOperands(instructions) ==
    {instructions[o + 2] : o \in JumpOffsets(instructions, Opcode.GET_BUILTIN)}

\* the registry is ordered len, puts, first, last, rest, push, and a new Compiler has
\* registered name i as the Builtin symbol of index i
RegistryAsStated ==
    /\ BUILTINS = <<"len", "puts", "first", "last", "rest", "push">>
    /\ \A i \in BuiltinIndices :
          /\ BUILTINS[i + 1] \in DOMAIN Compiler(CompilerState).tables[1].store
          /\ Compiler(CompilerState).tables[1].store[BUILTINS[i + 1]]
                 = Symbol(BUILTINS[i + 1], "BUILTIN", i)

\* the code compiled from a program loads each built-in it names by GET_BUILTIN i,
\* at any depth, and no function of it captures a built-in
ReferencesCompileToGetBuiltin ==
    pc \in {"compiled", "running", "done", "error"} =>
        /\ UNION {GetBuiltinOperands(Buffers[n]) : n \in 1..Len(Buffers)}
               = {BuiltinIndex(name) : name \in Identifiers(program) \cap BuiltinNames}
        /\ \A n \in 1..Len(compile_log) : \A s \in 1..Len(compile_log[n].free_symbols) :
               compile_log[n].free_symbols[s].name \notin BuiltinNames

\* GET_BUILTIN i pushes the built-in that has name i
GetBuiltinPushesTheNamedBuiltin ==
    (Running /\ NextOpcode = Opcode.GET_BUILTIN /\ sp < DEFAULT_STACK_SIZE) =>
        /\ error' = ""
        /\ sp' = sp + 1
        /\ stack'[sp + 1].type = "BUILTIN"
        /\ stack'[sp + 1].name = BUILTINS[Last(frames).cl.fn.instructions[Last(frames).ip + 3] + 1]

\* test_compiler.py, BUILTINS_TESTS: the instructions expected of len([]); push([], 3);
test_builtins ==
    Concat(<<make(Opcode.GET_BUILTIN, <<0>>).bytes,
             make(Opcode.ARRAY, <<0>>).bytes,
             make(Opcode.CALL, <<1>>).bytes,
             make(Opcode.POP, <<>>).bytes,
             make(Opcode.GET_BUILTIN, <<4>>).bytes,
             make(Opcode.ARRAY, <<0>>).bytes,
             make(Opcode.CONSTANT_, <<0>>).bytes,
             make(Opcode.CALL, <<2>>).bytes,
             make(Opcode.POP, <<>>).bytes>>)

\* the compiler emits for the program of the test the instructions the test expects
IndicesAreThoseOfTheTests ==
    (/\ pc = "compiled"
     /\ Len(program.statements) = 2
     /\ Identifiers(program) = {"len", "push"}) => bytecode.instructions = test_builtins

\* C27: built-in indices agree between compiler and VM: the registry is ordered len,
\* puts, first, last, rest, push (indices 0..5), the compiler registers name i with
\* define_builtin(i, name) in that order, a reference to a built-in at any depth
\* compiles to GET_BUILTIN i with no capture, which is the index the tests of the
\* compiler expect, and GET_BUILTIN i at run time pushes the built-in of that name.
C27_BuiltinIndicesAgree ==
    /\ [](RegistryAsStated /\ ReferencesCompileToGetBuiltin /\ IndicesAreThoseOfTheTests)
    /\ [][GetBuiltinPushesTheNamedBuiltin]_vars


(***************************************************************************)
(* C28: truthiness in the machine.                                         *)
(***************************************************************************)
\* truthy as the claim defines it: neither NULL nor FALSE
Truthy(v) == v.type # "NULL" /\ ~(v.type = "BOOLEAN" /\ v.value = FALSE)

\* the ip of the running frame before the step
RunningIp == Last(frames).ip

\* the operand of the JUMP_NOT_TRUTHY that is next
JumpTarget == unpack_ushort(Last(frames).cl.fn.instructions, RunningIp + 2)

\* C28: a value is truthy iff it is neither NULL nor FALSE, so 0 and the empty
\* string are truthy: BANG pops v and pushes the Boolean for not truthy(v), and
\* JUMP_NOT_TRUTHY pops v and sets ip to target - 1 iff v is not truthy and
\* otherwise goes on with the next instruction.
C28_TruthyIsNeitherNullNorFalse ==
    [][/\ (Running /\ NextOpcode = Opcode.BANG /\ sp > 0) =>
             /\ pc' = "running" /\ error' = ""
             /\ sp' = sp
             /\ ObjEq(stack'[sp], IF Truthy(stack[sp]) THEN FALSE_ ELSE TRUE_)
             /\ frames' = [frames EXCEPT ![Len(frames)].ip = RunningIp + 1]
       /\ (Running /\ NextOpcode = Opcode.JUMP_NOT_TRUTHY /\ sp > 0) =>
             /\ pc' = "running" /\ error' = ""
             /\ sp' = sp - 1
             /\ frames' = [frames EXCEPT ![Len(frames)].ip =
                              IF Truthy(stack[sp]) THEN RunningIp + 3 ELSE JumpTarget - 1]]_vars

\* !""; if (0) { 1 } else { 2 }; has run: BANG met the empty string, JUMP_NOT_TRUTHY
\* met 0 and did not jump, so the consequence left 1
C28_Witness ==
    /\ pc = "done"
    /\ Len(program.statements) = 2
    /\ program.statements[1].kind = "ExpressionStatement"
    /\ program.statements[1].expression.kind = "PrefixExpression"
    /\ program.statements[1].expression.right.kind = "StringLiteral"
    /\ program.statements[1].expression.right.value = <<>>
    /\ last.type = "INTEGER"
    /\ last.value = 1


(***************************************************************************)
(* C29: INDEX.                                                             *)
(***************************************************************************)
\* INDEX is next, with its two operands on the stack
AtIndex == Running /\ NextOpcode = Opcode.INDEX /\ sp >= 2

\* the step has popped two values and pushed v, the slots below as they were
PushesInstead(v) ==
    /\ pc' = "running" /\ error' = ""
    /\ sp' = sp - 1
    /\ ObjEq(stack'[sp - 1], v)
    /\ \A i \in 1..(sp - 2) : ObjEq(stack'[i], stack[i])

\* the step has ended the run with an exception
Fatal == pc' = "error" /\ error' # ""

\* the value an Array holds at index, NULL outside [0, len)
ElementAt(elements, index) ==
    IF index >= 0 /\ index < Len(elements) THEN elements[index + 1] ELSE NULL

\* the step has pushed the value the pairs hold under a key equal to index, or NULL
\* when no key is
PushesTheValueUnder(pairs, index) ==
    \/ \E i \in 1..Len(pairs) : ObjEq(pairs[i][1], index) /\ PushesInstead(pairs[i][2])
    \/ (\A i \in 1..Len(pairs) : ~ObjEq(pairs[i][1], index)) /\ PushesInstead(NULL)

\* INDEX on an Array with an Integer, and on what is neither an Array nor a Hash
IndexOfArrayAndOthers ==
    /\ (AtIndex /\ stack[sp - 1].type = "ARRAY" /\ stack[sp].type = "INTEGER") =>
           PushesInstead(ElementAt(stack[sp - 1].elements, stack[sp].value))
    /\ (AtIndex /\ stack[sp - 1].type = "ARRAY" /\ stack[sp].type # "INTEGER") => Fatal
    /\ (AtIndex /\ stack[sp - 1].type \notin {"ARRAY", "HASH"}) => Fatal

\* an index Python cannot hash: an Array, a Hash or a Closure
Unhashable(v) == v.type \in {"ARRAY", "HASH", "CLOSURE"}

\* C29 as stated: INDEX pops the index then the container and pushes exactly one
\* value: for an Array with an Integer index the element when the index is in
\* [0, len) and NULL otherwise, negative indices included; for a Hash, the value
\* stored under a structurally equal key or NULL when absent; any other
\* combination is a fatal runtime error.
C29_IndexAsStated ==
    [][/\ IndexOfArrayAndOthers
       /\ (AtIndex /\ stack[sp - 1].type = "HASH") =>
              PushesTheValueUnder(stack[sp - 1].pairs, stack[sp])]_vars

\* C29, amended: the same, but for a Hash only with an index that can be hashed; a
\* Hash with an Array, a Hash or a Closure as index is a fatal runtime error too.
C29_IndexOfHashNeedsAHashableIndex ==
    [][/\ IndexOfArrayAndOthers
       /\ (AtIndex /\ stack[sp - 1].type = "HASH" /\ ~Unhashable(stack[sp])) =>
              PushesTheValueUnder(stack[sp - 1].pairs, stack[sp])
       /\ (AtIndex /\ stack[sp - 1].type = "HASH" /\ Unhashable(stack[sp])) => Fatal]_vars

\* {1: 2}[[1]]; has ended at its INDEX with the TypeError of the lookup
C29_Witness ==
    /\ pc = "error"
    /\ error = "TypeError"
    /\ Len(program.statements) = 1
    /\ program.statements[1].kind = "ExpressionStatement"
    /\ program.statements[1].expression.kind = "IndexExpression"
    /\ program.statements[1].expression.left.kind = "HashLiteral"
    /\ sp = 0


(***************************************************************************)
(* C30: make, and the operands read back.                                  *)
(***************************************************************************)
RECURSIVE Total(_)
\* the sum of a list of widths
Total(widths) == IF widths = <<>> THEN 0 ELSE Head(widths) + Total(Tail(widths))

\* the largest unsigned value of width bytes: 2^(8 * width) - 1
LargestOperand(width) == IF width = 1 THEN 255 ELSE 65535

\* the widths of the operands of the opcode given to make
Widths == operand_widths(op.opcode)

\* the offset in the instruction of operand i
OperandAt(i) == 1 + Total(SubSeq(Widths, 1, i - 1))

\* the bytes of operand i are the big-endian digits of the operand, in base 256
BigEndian(i) ==
    /\ \A k \in 1..Widths[i] : op.bytes[OperandAt(i) + k] \in 0..255
    /\ op.operands[i] =
           IF Widths[i] = 1 THEN op.bytes[OperandAt(i) + 1]
           ELSE op.bytes[OperandAt(i) + 1] * 256 + op.bytes[OperandAt(i) + 2]

\* the inputs make has to refuse
MakeMustRaise ==
    \/ op.opcode \notin OpcodeValues
    \/ Len(op.operands) # Len(Widths)
    \/ \E i \in 1..Len(op.operands) : op.operands[i] \notin 0..LargestOperand(Widths[i])

\* C30: make(opcode, operands) returns the opcode byte followed by each operand,
\* big-endian and unsigned at the opcode's fixed width, 1 + the sum of the widths
\* bytes in all; it raises when the number of operands is not that of the widths,
\* when the opcode has no definition or when an operand is outside
\* [0, 2^(8 * width) - 1]; read_ubyte and read_ushort recover exactly the operands.
C30_MakeEncodesBigEndian ==
    op.name = "make" =>
        /\ (op.error # "") = MakeMustRaise
        /\ op.error # "" => pc = "raised"
        /\ op.error = "" =>
              /\ error = ""
              /\ Len(op.bytes) = 1 + Total(Widths)
              /\ op.bytes[1] = op.opcode
              /\ \A i \in 1..Len(Widths) : BigEndian(i)
              /\ \A i \in 1..Len(op.values) : op.values[i] = op.operands[i]
              /\ Last(frames).ip = OperandAt(Len(op.values) + 1) - 1

\* make(Opcode.CLOSURE, [256, 255]) has made four bytes and both operands are read
C30_Witness ==
    /\ pc = "made"
    /\ op.name = "make"
    /\ op.opcode = Opcode.CLOSURE
    /\ op.bytes = <<Opcode.CLOSURE, 1, 0, 255>>
    /\ op.values = <<256, 255>>
    /\ Last(frames).ip = 3


(***************************************************************************)
(* C31: the stack pointer.                                                 *)
(***************************************************************************)
\* C31: in every reachable state of a run of compiler-produced bytecode
\* 0 <= sp <= 2048, the capacity of the stack: no instruction, CALL reserving
\* num_locals slots and the returns resetting sp included, moves sp outside that
\* range; an instruction that would do so raises the stack overflow or underflow
\* error before it changes sp.
C31_SpStaysWithinTheStack == sp >= 0 /\ sp <= DEFAULT_STACK_SIZE


(***************************************************************************)
(* C32: the frame stack while run() executes.                              *)
(***************************************************************************)
\* C32: in a run of bytecode compiled from a program the compiler accepts, a
\* top-level return statement included, the frame stack is never empty while run()
\* executes: the main frame is never popped, and the assertions of current_frame
\* and pop_frame never fail.
C32_MainFrameIsNeverPopped ==
    /\ pc = "running" => frames # <<>>
    /\ error # "AssertionError"


\* ---------------------------------------------------------------------------------
\* C33: the slot a GET_LOCAL reads.
\* ---------------------------------------------------------------------------------

\* GET_LOCAL is the next instruction of run() and reads local slot i
GetsLocal(i) ==
    /\ Running
    /\ NextOpcode = Opcode.GET_LOCAL
    /\ operand_ok(Fetched, 1)
    /\ operand_ubyte(Fetched) = i

\* slot i of the current frame was written in this activation: an argument placed by the
\* caller, or the target of an earlier SET_LOCAL i of the same frame
WrittenInThisActivation(i) == call_log # <<>> /\ i \in Last(call_log).written

\* C33: in a run of compiler-produced bytecode every GET_LOCAL i reads a slot stack[bp+i]
\* that was written during the current frame's activation, as an argument placed by the
\* caller or by an earlier SET_LOCAL i of the same frame; it never observes a value left
\* in the reserved slot by an earlier use of the stack, as for a body with let a = a;.
C33_GetLocalReadsAWrittenSlot ==
    [][\A i \in 0..255 : GetsLocal(i) /\ RunGetLocal => WrittenInThisActivation(i)]_vars


\* ---------------------------------------------------------------------------------
\* C34: what a call leaves of the caller's part of the stack.
\* ---------------------------------------------------------------------------------

\* slot j of the stack is the same object before and after the step
SlotUnchanged(j) ==
    ObjEq(list_get(stack', DEFAULT_STACK_SIZE, j), list_get(stack, DEFAULT_STACK_SIZE, j))

\* frame k is the frame of a called closure, and the step is one between its CALL and
\* its return: frame k is on the frame stack before and after the step
BetweenCallAndReturn(k) == k >= 2 /\ k <= Len(frames) /\ k <= Len(frames')

\* the step is the RETURN or RETURN_VALUE of frame k, after which its caller resumes
ReturnOf(k) == k >= 2 /\ k = Len(frames) /\ Len(frames') = k - 1 /\ error' = ""

\* every write of a step between the CALL and the return of frame k lands at or above
\* the base pointer of frame k
CalleeWritesAboveItsBasePointer ==
    \A k \in 1..Len(frames) :
        BetweenCallAndReturn(k) => \A j \in 0..(frames[k].bp - 1) : SlotUnchanged(j)

\* the return of frame k writes nothing below the callee slot, which is at bp - 1; with
\* the writes of the steps before it, the caller finds the slots below the callee slot
\* as they were at the CALL
CallerFindsItsSlots ==
    \A k \in 1..Len(frames) :
        ReturnOf(k) =>
            /\ sp' = frames[k].bp
            /\ \A j \in 0..(frames[k].bp - 2) : SlotUnchanged(j)

UserDefinedNames ==
    {n \in DOMAIN compiler_state.symbol_table.store :
        compiler_state.symbol_table.store[n].scope = "GLOBAL"}

\* what the name resolves to in the global table of a Compiler made over the state
ResolvesUnderANewCompiler(n) == resolve(Compiler(compiler_state).tables, 1, n).symbol

\* C35: with a reused CompilerState, a name bound by a top-level let keeps resolving to
\* that same Global symbol in every later compile, also when the name is that of a
\* built-in, as after let len = 5: constructing a new Compiler over the state never
\* changes what a user-defined name resolves to.
C35_NewCompilerKeepsUserNames ==
    \A n \in UserDefinedNames :
        ResolvesUnderANewCompiler(n) = compiler_state.symbol_table.store[n]


\* ---------------------------------------------------------------------------------
\* C36: the Hash that HASH builds.
\* ---------------------------------------------------------------------------------

\* the i-th of the n key/value pairs under the stack pointer, in the order of the pushes
PushedPair(i, n) ==
    <<list_get(stack, DEFAULT_STACK_SIZE, sp - 2 * n + 2 * (i - 1)),
      list_get(stack, DEFAULT_STACK_SIZE, sp - 2 * n + 2 * (i - 1) + 1)>>

\* the mapping after inserting the first i of the n pairs in the order of the pushes
RECURSIVE InsertedInOrder(_, _)
InsertedInOrder(i, n) ==
    IF i = 0 THEN <<>>
    ELSE pairs_set(InsertedInOrder(i - 1, n), PushedPair(i, n)[1], PushedPair(i, n)[2])

\* HASH n is the next instruction of run() and raises nothing
HashOf(n) ==
    /\ Running
    /\ NextOpcode = Opcode.HASH
    /\ operand_ushort(Fetched) = n
    /\ error' = ""

\* C36: HASH n builds the same mapping as inserting the n key/value pairs in the order
\* they were pushed, the order of the source: when two of the pairs have structurally
\* equal keys the Hash maps that key to the value of the pair pushed later; and the
\* stack depth drops by 2n and rises by one.
C36_HashInsertsInSourceOrder ==
    [][\A n \in 0..(sp \div 2) :
          HashOf(n) =>
              /\ sp' = sp - 2 * n + 1
              /\ ObjEq(list_get(stack', DEFAULT_STACK_SIZE, sp' - 1),
                       Hash(InsertedInOrder(n, n)))]_vars


\* ---------------------------------------------------------------------------------
\* C37: capture through the tables in between.
\* ---------------------------------------------------------------------------------

\* table k is at least two function levels below the nearest table that binds name; that
\* table is not the global one and binds the name by a define, by a define_function_name
\* or, being itself a table in between that resolved the name before, by a capture
BoundTwoLevelsOut(k, name) ==
    /\ binder(tables, k, name) >= 2
    /\ k >= binder(tables, k, name) + 2
    /\ tables[binder(tables, k, name)].store[name].scope \in {"LOCAL", "FUNCTION", "FREE"}

\* table m has gained a Free symbol for name in the step: the next index of its own
\* free_symbols, where it has appended what its immediate outer table binds name to
GainsAFreeSymbol(m, name) ==
    /\ name \in DOMAIN tables'[m].store
    /\ tables'[m].store[name] = Symbol(name, "FREE", Len(tables[m].free_symbols))
    /\ tables'[m].free_symbols = Append(tables[m].free_symbols, tables'[m - 1].store[name])

\* C37: capture is transitive through the scopes in between: when a table nested two or
\* more function levels below the non-global table that defines a name resolves that
\* name, every table in between on the chain also gains a Free symbol for it, appended
\* to its own free_symbols, and the entry of the innermost table's free_symbols is the
\* Free symbol of its immediate outer table, so that each enclosing function can load
\* the value for the CLOSURE it emits.
C37_CaptureIsTransitive ==
    [][\A k \in 1..Len(tables), name \in Names :
          (ResolveStep(k, name) /\ BoundTwoLevelsOut(k, name)) =>
              /\ \A m \in (binder(tables, k, name) + 1)..k : GainsAFreeSymbol(m, name)
              /\ op'.symbol = tables'[k].store[name]
              /\ Last(tables'[k].free_symbols).scope = "FREE"
              /\ Last(tables'[k].free_symbols) = tables'[k - 1].store[name]
              /\ \A m \in 1..binder(tables, k, name) : tables'[m] = tables[m]]_vars

\* the second call of all was a resolve on the inner table of the name the outer table
\* defines: the middle table holds the definition, the inner one the middle's Free symbol
C37_Witness ==
    /\ pc = "symtab"
    /\ op.name = "resolve"
    /\ op.calls = 2
    /\ op.k = 4
    /\ op.argument \in DOMAIN tables[2].store
    /\ tables[2].store[op.argument].scope = "LOCAL"
    /\ tables[3].free_symbols = <<tables[2].store[op.argument]>>
    /\ tables[4].free_symbols = <<Symbol(op.argument, "FREE", 0)>>
    /\ op.symbol = Symbol(op.argument, "FREE", 0)


(***************************************************************************)
(* The compiler driven call by call, as test_compiler.py drives it:        *)
(* compiler = Compiler(), then emit, enter_scope, leave_scope,             *)
(* symbol_table.define and change_operand in any order.  op holds the      *)
(* compiler, what the last call was given and returned, and as history     *)
(* for every scope entered and not yet left the compiler as it was before  *)
(* enter_scope, the bytes emitted into the scope since, and whether a      *)
(* change_operand has rewritten any of them.                               *)
(***************************************************************************)
MaxCompilerCalls == 5

\* what emit is called with: no operand, one of two bytes, one of one byte, two operands
EmitInputs ==
    {<<Opcode.ADD, <<>>>>, <<Opcode.JUMP, <<4660>>>>, <<Opcode.GET_LOCAL, <<1>>>>,
     <<Opcode.CLOSURE, <<1, 2>>>>}

\* what change_operand is called with: an operand of one byte and one of two
NewOperands == {86, 22136}

\* compiler = Compiler()
InitCompiler ==
    /\ pc = "compiler"
    /\ program = NoNode
    /\ bytecode = [instructions |-> <<>>, constants |-> <<>>]
    /\ compile_log = <<>>
    /\ constants = <<>>
    /\ stack = <<>>
    /\ sp = 0
    /\ frames = <<>>
    /\ globals = <<>>
    /\ last = NoObject
    /\ error = ""
    /\ call_log = <<>>
    /\ tables = <<>>
    /\ op = [name |-> "Compiler", calls |-> 0, c |-> Compiler(CompilerState),
             position |-> 0, operand |-> 0, returned |-> <<>>, saved |-> <<>>]
    /\ captured = <<>>
    /\ NoRepl

\* the call's effect on the compiler; an exception ends the test
CompilerCalled(name, c, position, operand, returned, saved) ==
    /\ pc = "compiler"
    /\ op.calls < MaxCompilerCalls
    /\ op' = [name |-> name, calls |-> op.calls + 1, c |-> [c EXCEPT !.error = ""],
              position |-> position, operand |-> operand, returned |-> returned,
              saved |-> saved]
    /\ error' = c.error
    /\ pc' = IF c.error # "" THEN "raised" ELSE "compiler"
    /\ UNCHANGED <<program, bytecode, compile_log, constants, stack, sp, frames, globals,
                   last, call_log, tables, captured, repl_vars>>

\* history: the bytes an emit appends belong to the innermost scope entered
emitted_into(saved, bytes) ==
    IF saved = <<>> THEN saved ELSE [saved EXCEPT ![Len(saved)].emitted = @ \o bytes]

\* history: a change_operand rewrites bytes of the innermost scope entered
rewritten_in(saved) ==
    IF saved = <<>> THEN saved ELSE [saved EXCEPT ![Len(saved)].rewritten = TRUE]

\* compiler.emit(opcode, operands)
CallEmit ==
    \E input \in EmitInputs :
        CompilerCalled("emit", emit(op.c, input[1], input[2]),
                       Len(current_scope(op.c).instructions), 0, <<>>,
                       emitted_into(op.saved, make(input[1], input[2]).bytes))

\* compiler.enter_scope()
CallEnterScope ==
    CompilerCalled("enter_scope", enter_scope(op.c), 0, 0, <<>>,
                   Append(op.saved, [c |-> op.c, emitted |-> <<>>, rewritten |-> FALSE]))

\* compiler.leave_scope(), which returns the instructions of the scope it pops
CallLeaveScope ==
    CompilerCalled("leave_scope", leave_scope(op.c), 0, 0,
                   IF leave_scope(op.c).error = "" THEN current_scope(op.c).instructions
                   ELSE <<>>,
                   IF leave_scope(op.c).error = "" THEN Front(op.saved) ELSE op.saved)

\* compiler.symbol_table.define(name)
CallDefine ==
    \E name \in Names :
        CompilerCalled("define",
                       [op.c EXCEPT !.tables = define(op.c.tables, Len(op.c.tables), name).tables],
                       0, 0, <<>>, op.saved)

\* compiler.change_operand(position, operand) at an instruction of the current scope
CallChangeOperand ==
    \E position \in InstructionStarts(current_scope(op.c).instructions, 0),
       operand \in NewOperands :
        CompilerCalled("change_operand", change_operand(op.c, position, operand),
                       position, operand, <<>>, rewritten_in(op.saved))

NextCompiler ==
    \/ CallEmit
    \/ CallEnterScope
    \/ CallLeaveScope
    \/ CallDefine
    \/ CallChangeOperand

SpecCompiler == InitCompiler /\ [][NextCompiler]_vars


\* ---------------------------------------------------------------------------------
\* C38: scopes and symbol tables nest in step.
\* ---------------------------------------------------------------------------------

\* scope_index is the index of the last scope, and the number of outer links from the
\* current symbol table to the global one
ScopesAndTablesInStep ==
    pc \in {"compiler", "raised"} =>
        /\ op.c.scope_index = Len(op.c.scopes) - 1
        /\ op.c.scope_index = Len(op.c.tables) - 1

\* the step is a leave_scope that returned
LeaveScopeReturns ==
    /\ op'.name = "leave_scope"
    /\ op'.calls = op.calls + 1
    /\ pc' = "compiler"

\* the two buffers hold the same instructions, whatever their operands
SameInstructions(a, b) ==
    /\ Len(a) = Len(b)
    /\ InstructionStarts(a, 0) = InstructionStarts(b, 0)
    /\ \A o \in InstructionStarts(a, 0) : a[o + 1] = b[o + 1]

\* leave_scope undoes the enter_scope it matches: scope_index and the symbol table are
\* those from before the enter_scope, every outer scope has its instructions and its
\* last and prev instruction as before, and what is returned is what was emitted into
\* the scope in between, byte for byte unless a change_operand rewrote an operand
LeaveScopeUndoesEnterScope ==
    LeaveScopeReturns =>
        /\ op.saved # <<>>
        /\ op'.c.scope_index = Last(op.saved).c.scope_index
        /\ op'.c.tables = Last(op.saved).c.tables
        /\ op'.c.scopes = Last(op.saved).c.scopes
        /\ SameInstructions(op'.returned, Last(op.saved).emitted)
        /\ ~Last(op.saved).rewritten => op'.returned = Last(op.saved).emitted

\* C38: compilation scopes and symbol tables nest like a stack and in step: in every
\* state scope_index equals len(scopes) - 1 and equals the number of outer links from
\* the current symbol table to the global table; enter_scope followed by leave_scope
\* restores the previous scope_index and symbol table and returns only the bytes emitted
\* in the inner scope, leaving the outer scope's instructions and its last and prev
\* instruction records unchanged.
C38_ScopesNestInStep ==
    /\ []ScopesAndTablesInStep
    /\ [][LeaveScopeUndoesEnterScope]_vars

\* leave_scope has returned the bytes of a scope entered inside another one, which has
\* instructions of its own
C38_Witness ==
    /\ pc = "compiler"
    /\ op.name = "leave_scope"
    /\ op.returned # <<>>
    /\ op.c.scope_index = 1
    /\ current_scope(op.c).instructions # <<>>
    /\ current_scope(op.c).last_instruction # NoInstruction

\* ---------------------------------------------------------------------------------
\* C39: what change_operand rewrites.
\* ---------------------------------------------------------------------------------

\* the step is the call change_operand(position, operand)
ChangeOperandStep(position, operand) ==
    /\ op'.name = "change_operand"
    /\ op'.calls = op.calls + 1
    /\ op'.position = position
    /\ op'.operand = operand

\* the operand of the instruction at position, read back with the width of its opcode
OperandReadBack(instructions, position) ==
    IF operand_widths(instructions[position + 1]) = <<2>>
    THEN unpack_ushort(instructions, position + 1)
    ELSE unpack_ubyte(instructions, position + 1)

\* only bytes of the instruction at position differ, and its opcode byte does not
OnlyTheOperandBytesDiffer(before, after, position) ==
    /\ Len(after) = Len(before)
    /\ after[position + 1] = before[position + 1]
    /\ \A i \in 1..Len(before) :
          (i <= position + 1 \/ i > position + InstructionLength(before[position + 1]))
              => after[i] = before[i]

\* everything of the compiler but the instructions of the current scope is as it was
OnlyTheInstructionsDiffer(c, d) ==
    /\ d.scope_index = c.scope_index
    /\ Len(d.scopes) = Len(c.scopes)
    /\ \A i \in 1..Len(c.scopes) :
          /\ d.scopes[i].last_instruction = c.scopes[i].last_instruction
          /\ d.scopes[i].prev_instruction = c.scopes[i].prev_instruction
          /\ i # c.scope_index + 1 => d.scopes[i].instructions = c.scopes[i].instructions
    /\ d.constants = c.constants
    /\ d.tables = c.tables

\* C39: change_operand(pos, new_operand) rewrites only the operand bytes of the
\* instruction at pos: the opcode byte at pos, the length of the buffer, every byte
\* outside that instruction and the last and prev instruction records are unchanged, and
\* the operand is encoded again with the width it had in the original instruction.
C39_ChangeOperandRewritesTheOperand ==
    [][\A position \in 0..(4 * MaxCompilerCalls), operand \in NewOperands :
          ChangeOperandStep(position, operand) =>
              /\ OnlyTheInstructionsDiffer(op.c, op'.c)
              /\ OnlyTheOperandBytesDiffer(current_scope(op.c).instructions,
                                           current_scope(op'.c).instructions, position)
              /\ IF pc' = "compiler"
                 THEN /\ Len(operand_widths(current_scope(op.c).instructions[position + 1])) = 1
                      /\ OperandReadBack(current_scope(op'.c).instructions, position) = operand
                 ELSE current_scope(op'.c).instructions = current_scope(op.c).instructions]_vars

\* change_operand has rewritten the two operand bytes of a JUMP that stands between two
\* other instructions
C39_Witness ==
    /\ pc = "compiler"
    /\ op.name = "change_operand"
    /\ op.position >= 1
    /\ op.operand = 22136
    /\ Len(current_scope(op.c).instructions) > op.position + 3
    /\ SubSeq(current_scope(op.c).instructions, op.position + 1, op.position + 3)
           = <<Opcode.JUMP, 86, 120>>

====
